---------------------------- MODULE Spec2Model ----------------------------
(***************************************************************************)
(* A model of the writers of bufio (src/src/writer.ts, which holds both    *)
(* BufferWriter and StaticWriter, and src/src/sizewriter.ts) and of the    *)
(* encoding primitives they call (src/src/encoding.ts).                    *)
(*                                                                         *)
(* The numbers handed to the 8-, 16- and 32-bit writes are TLA+ integers;  *)
(* those handed to the 64-bit and varint primitives are records [neg, mag] *)
(* (see Numbers), so that they reach 2^64.                                 *)
(* A Buffer is a record [len, cells]: cells maps the 0-based indices that  *)
(* have been written to their byte; an index of 0..len-1 that is not in    *)
(* DOMAIN cells is uninitialised memory (Buffer.allocUnsafe).              *)
(***************************************************************************)
EXTENDS Integers, Sequences, FiniteSets, TLC

VARIABLES
    noAssert,   \* the runtime honours the noAssert flag of Buffer.write*Int*
    pc,         \* position of the encode harness
    calls,      \* the write calls made so far, in order
    bw,         \* BufferWriter: [ops, offset]
    sz,         \* SizeWriter: [offset]
    st,         \* StaticWriter of the harness: [data, offset]
    k,          \* number of calls replayed into st
    bwOut,      \* outcome of BufferWriter.render()
    szOut,      \* outcome of SizeWriter.render()
    stOut,      \* outcome of StaticWriter.render()
    POOL,       \* the shared slab of StaticWriter.pool, or Null
    sw,         \* the StaticWriters of the pool scenario
    handed,     \* the byte arrays render()/slice() returned in the pool scenario
    last,       \* outcome of the last call in the pool scenario
    codec       \* the codec scenario: a number, its encodings and decodings

vars == <<noAssert, pc, calls, bw, sz, st, k, bwOut, szOut, stOut,
          POOL, sw, handed, last, codec>>

-----------------------------------------------------------------------------
(* Bounds of the model *)

MaxCalls == 2

\* the pool scenario: writers created, calls made on each
MaxWriters == 2
MaxOps == 2

-----------------------------------------------------------------------------
(* Outcomes: a call returns normally or throws *)

OK == [type |-> "ok", reason |-> "", offset |-> 0]

\* new EncodingError(offset, reason): message `${reason} (offset=${offset}).`
EncodingError(offset, reason) ==
    [type |-> "EncodingError", reason |-> reason, offset |-> offset]

\* assert(...) of the node assert module
AssertionError == [type |-> "AssertionError", reason |-> "", offset |-> 0]

\* thrown by the Buffer methods of the runtime
RangeError == [type |-> "RangeError", reason |-> "", offset |-> 0]

\* encoding.check
check(value, offset) ==
    IF value THEN OK ELSE EncodingError(offset, "Out of bounds read")

\* encoding.enforce
enforce(value, offset, reason) ==
    IF value THEN OK ELSE EncodingError(offset, reason)

-----------------------------------------------------------------------------
(* Buffers *)

Min(a, b) == IF a <= b THEN a ELSE b
Max(a, b) == IF a >= b THEN a ELSE b

NoCells == [i \in {} |-> 0]

\* Buffer.allocUnsafe(n), Buffer.allocUnsafeSlow(n): n uninitialised bytes
allocUnsafe(n) == [len |-> n, cells |-> NoCells]

\* const EMPTY = Buffer.alloc(0)
EMPTY == [len |-> 0, cells |-> NoCells]

\* dst[i] = v on a Buffer: an index outside 0..len-1 is ignored
Put(dst, i, v) ==
    IF i >= 0 /\ i < dst.len
    THEN [dst EXCEPT !.cells = (i :> (v % 256)) @@ @]
    ELSE dst

RECURSIVE PutSeq(_, _, _)
\* the bytes of the sequence s stored at off, off+1, ...
PutSeq(dst, off, s) ==
    IF s = <<>> THEN dst
    ELSE PutSeq(Put(dst, off, Head(s)), off + 1, Tail(s))

\* the bytes of an integer, least significant first (two's complement)
BytesLE(x, n) == [i \in 1..n |-> IF i <= 4 THEN (x \div (256 ^ (i - 1))) % 256
                                  ELSE IF x < 0 THEN 255 ELSE 0]

Reverse(s) == [i \in 1..Len(s) |-> s[Len(s) + 1 - i]]

\* the result of a primitive that writes: the buffer, the new offset, the outcome
Res(data, off, err) == [data |-> data, off |-> off, err |-> err]

InRange(value, n, signed) ==
    IF n >= 4 THEN signed \/ value >= 0
    ELSE IF signed THEN value >= -(256 ^ n) \div 2 /\ value < (256 ^ n) \div 2
    ELSE value >= 0 /\ value < 256 ^ n

\* buf.writeUInt8/16/32(value, off, true), buf.writeInt8/16/32(value, off, true):
\* n bytes, little or big endian. A runtime that honours noAssert stores what
\* fits and returns off + n; one that does not throws RangeError on an offset
\* or a value out of range.
WriteInt(data, value, off, n, be, signed, na) ==
    IF ~na /\ (off < 0 \/ off + n > data.len \/ ~InRange(value, n, signed))
    THEN Res(data, off, RangeError)
    ELSE Res(PutSeq(data, off, IF be THEN Reverse(BytesLE(value, n))
                                     ELSE BytesLE(value, n)),
             off + n, OK)

\* source.copy(target, targetStart, sourceStart, sourceEnd) for a source given
\* as a sequence of bytes: the number of bytes copied and the target
BufCopy(source, target, targetStart, sourceStart, sourceEnd) ==
    IF targetStart < 0 \/ sourceStart < 0 \/ sourceEnd < 0
    THEN [n |-> 0, data |-> target, err |-> RangeError]
    ELSE IF targetStart >= target.len \/ sourceStart >= sourceEnd
    THEN [n |-> 0, data |-> target, err |-> OK]
    ELSE IF sourceStart > Len(source)
    THEN [n |-> 0, data |-> target, err |-> RangeError]
    ELSE LET n == Min(Min(sourceEnd - sourceStart, target.len - targetStart),
                      Len(source) - sourceStart)
         IN [n |-> n,
             data |-> PutSeq(target, targetStart,
                             SubSeq(source, sourceStart + 1, sourceStart + n)),
             err |-> OK]

\* value.slice(start, end) for a value given as a sequence of bytes
SliceIndex(i, len) == IF i < 0 THEN Max(len + i, 0) ELSE Min(i, len)

BufSlice(value, start, end) ==
    LET s == SliceIndex(start, Len(value))
        e == SliceIndex(end, Len(value))
    IN IF e <= s THEN <<>> ELSE SubSeq(value, s + 1, e)

\* data.fill(value, start, end)
BufFill(data, value, start, end) ==
    IF start < 0 \/ end > data.len THEN [data |-> data, err |-> RangeError]
    ELSE IF end <= start THEN [data |-> data, err |-> OK]
    ELSE [data |-> PutSeq(data, start, [i \in 1..(end - start) |-> value % 256]),
          err |-> OK]

\* the bytes data[s..e-1]; an uninitialised byte reads as g
ReadSeq(data, s, e, g) ==
    [i \in 1..(e - s) |-> IF (s + i - 1) \in DOMAIN data.cells
                          THEN data.cells[s + i - 1] ELSE g]

\* the buffer once data[s..e-1] has been read: what was read stays what it was
Settle(data, s, e, g) ==
    [data EXCEPT !.cells = [i \in (s..(e - 1)) \ DOMAIN @ |-> g] @@ @]

-----------------------------------------------------------------------------
(* Strings: sequences of character codes, and the encodings "utf8" and "hex" *)

Utf8Len(c) == IF c < 128 THEN 1 ELSE IF c < 2048 THEN 2 ELSE 3

Utf8Char(c) ==
    IF c < 128 THEN <<c>>
    ELSE IF c < 2048 THEN <<192 + (c \div 64), 128 + (c % 64)>>
    ELSE <<224 + (c \div 4096), 128 + ((c \div 64) % 64), 128 + (c % 64)>>

IsHex(c) == c \in (48..57) \cup (65..70) \cup (97..102)

HexVal(c) == IF c <= 57 THEN c - 48 ELSE IF c <= 70 THEN c - 55 ELSE c - 87

RECURSIVE SumLen(_)
SumLen(value) ==
    IF value = <<>> THEN 0 ELSE Utf8Len(Head(value)) + SumLen(Tail(value))

\* Buffer.byteLength(value, enc); enc "" stands for undefined (utf8)
byteLength(value, enc) ==
    IF enc = "hex" THEN Len(value) \div 2 ELSE SumLen(value)

RECURSIVE EncodeFit(_, _, _)
\* the bytes of the longest prefix of whole characters (utf8) or of valid
\* digit pairs (hex) of value that fits in room bytes
EncodeFit(value, enc, room) ==
    IF enc = "hex"
    THEN IF Len(value) < 2 \/ room < 1 \/ ~IsHex(value[1]) \/ ~IsHex(value[2])
         THEN <<>>
         ELSE <<16 * HexVal(value[1]) + HexVal(value[2])>>
              \o EncodeFit(SubSeq(value, 3, Len(value)), enc, room - 1)
    ELSE IF value = <<>> \/ room < Utf8Len(Head(value))
         THEN <<>>
         ELSE Utf8Char(Head(value))
              \o EncodeFit(Tail(value), enc, room - Utf8Len(Head(value)))

\* data.write(string, offset, enc): the number of bytes written and the buffer
BufWrite(data, string, offset, enc) ==
    IF offset < 0 \/ offset > data.len
    THEN [n |-> 0, data |-> data, err |-> RangeError]
    ELSE LET bytes == EncodeFit(string, enc, data.len - offset)
         IN [n |-> Len(bytes), data |-> PutSeq(data, offset, bytes), err |-> OK]

-----------------------------------------------------------------------------
(* Numbers.  A number of the source that holds an integer is a record       *)
(* [neg, mag]: its sign and its magnitude as 8 bytes, least significant     *)
(* first (zero has neg = FALSE).  The inputs are integers a double holds    *)
(* exactly.  A 32-bit integer of the source (the result of |0, ~, or of     *)
(* readInt32) is a TLA+ integer.                                            *)

\* the number with the value of the TLA+ integer x, |x| < 2^31
Num(x) == [neg |-> x < 0,
           mag |-> BytesLE(IF x < 0 THEN -x ELSE x, 4) \o <<0, 0, 0, 0>>]

IsZero(m) == \A i \in 1..Len(m) : m[i] = 0

RECURSIVE MagLeq(_, _)
\* m <= n for magnitudes of the same length
MagLeq(m, n) ==
    IF m = <<>> THEN TRUE
    ELSE IF m[Len(m)] # n[Len(n)] THEN m[Len(m)] < n[Len(n)]
    ELSE MagLeq(SubSeq(m, 1, Len(m) - 1), SubSeq(n, 1, Len(n) - 1))

RECURSIVE MagInc(_)
\* m + 1 (modulo 256^Len(m))
MagInc(m) ==
    IF m = <<>> THEN <<>>
    ELSE IF Head(m) < 255 THEN <<Head(m) + 1>> \o Tail(m)
    ELSE <<0>> \o MagInc(Tail(m))

RECURSIVE MagDec(_)
\* m - 1 (modulo 256^Len(m))
MagDec(m) ==
    IF m = <<>> THEN <<>>
    ELSE IF Head(m) > 0 THEN <<Head(m) - 1>> \o Tail(m)
    ELSE <<255>> \o MagDec(Tail(m))

\* floor(m / 128)
MagShr7(m) ==
    [i \in 1..Len(m) |-> (m[i] \div 128)
                         + (IF i < Len(m) THEN (m[i + 1] % 128) * 2 ELSE 0)]

\* m * 128 (modulo 256^Len(m))
MagShl7(m) ==
    [i \in 1..Len(m) |-> ((m[i] % 2) * 128)
                         + (IF i > 1 THEN m[i - 1] \div 2 ELSE 0)]

\* a <= b, a < b on numbers
NumLeq(a, b) ==
    IF a.neg # b.neg THEN a.neg
    ELSE IF a.neg THEN MagLeq(b.mag, a.mag)
    ELSE MagLeq(a.mag, b.mag)

NumLt(a, b) == ~NumLeq(b, a)

\* the 32-bit integer with the bytes b (least significant first)
Int32(b) ==
    b[1] + 256 * b[2] + 65536 * b[3]
    + 16777216 * (IF b[4] >= 128 THEN b[4] - 256 ELSE b[4])

\* num & 0xff, num & 0x7f
LowByte(num) == IF num.neg THEN (256 - num.mag[1]) % 256 ELSE num.mag[1]

Low7(num) == LowByte(num) % 128

\* 0xffffffff, Number.MAX_SAFE_INTEGER
\* the number whose low 32 bits are the bytes b, least significant first
Num32(b) == [neg |-> FALSE, mag |-> b \o <<0, 0, 0, 0>>]

MaxU32 == [neg |-> FALSE, mag |-> <<255, 255, 255, 255, 0, 0, 0, 0>>]

MAX_SAFE_INTEGER ==
    [neg |-> FALSE, mag |-> <<255, 255, 255, 255, 255, 255, 31, 0>>]

\* -0x80000000, the least 32-bit integer
MinInt32 == -2147483647 - 1

-----------------------------------------------------------------------------
(* encoding.ts *)

\* write64: hi = (num * (1 / 0x100000000)) | 0, lo = num | 0, negated as a
\* pair when num < 0.  lo = ~lo + 1 is computed on numbers: for lo =
\* -0x80000000 it is 0x80000000, which writeInt32 stores as the same bytes
\* when the runtime honours noAssert and rejects when it does not.
write64(dst, num, off, be, na) ==
    LET neg == num.neg /\ ~IsZero(num.mag)
        hi0 == Int32(SubSeq(num.mag, 5, 8))
        lo0 == Int32(SubSeq(num.mag, 1, 4))
        hi == IF ~neg THEN hi0
              ELSE IF lo0 = 0 THEN (IF hi0 = MinInt32 THEN hi0 ELSE -hi0)
              ELSE -hi0 - 1
        lo == IF ~neg \/ lo0 = 0 \/ lo0 = MinInt32 THEN lo0 ELSE -lo0
        loFits == ~(neg /\ lo0 = MinInt32)
        Word(d, o, w, fits) ==
            IF ~na /\ ~fits THEN Res(d, o, RangeError)
            ELSE WriteInt(d, w, o, 4, be, TRUE, na)
        Second(r, w, fits) ==
            IF r.err # OK THEN r ELSE Word(r.data, r.off, w, fits)
    IN IF be THEN Second(Word(dst, off, hi, TRUE), lo, loFits)
       ELSE Second(Word(dst, off, lo, loFits), hi, TRUE)

writeU64(dst, num, off, na) == write64(dst, num, off, FALSE, na)

writeU64BE(dst, num, off, na) == write64(dst, num, off, TRUE, na)

writeI64(dst, num, off, na) == write64(dst, num, off, FALSE, na)

writeI64BE(dst, num, off, na) == write64(dst, num, off, TRUE, na)

\* num <= 0xffffffff
FitsU32(num) == NumLeq(num, MaxU32)

sizeVarint(num) ==
    IF NumLt(num, Num(253)) THEN 1
    ELSE IF NumLeq(num, Num(65535)) THEN 3
    ELSE IF FitsU32(num) THEN 5
    ELSE 9

\* writeVarint without its one-byte form
writeVarintLong(dst, num, off, na) ==
    IF NumLeq(num, Num(65535))
    THEN Res(PutSeq(dst, off, <<253>> \o SubSeq(num.mag, 1, 2)), off + 3, OK)
    ELSE IF FitsU32(num)
    THEN Res(PutSeq(dst, off, <<254>> \o SubSeq(num.mag, 1, 4)), off + 5, OK)
    ELSE writeU64(Put(dst, off, 255), num, off + 1, na)

writeVarint(dst, num, off, na) ==
    IF NumLt(num, Num(253))
    THEN Res(Put(dst, off, LowByte(num)), off + 1, OK)
    ELSE IF NumLeq(num, Num(65535))
    THEN Res(PutSeq(dst, off, <<253>> \o SubSeq(num.mag, 1, 2)), off + 3, OK)
    ELSE IF FitsU32(num)
    THEN Res(PutSeq(dst, off, <<254>> \o SubSeq(num.mag, 1, 4)), off + 5, OK)
    ELSE writeU64(Put(dst, off, 255), num, off + 1, na)

\* num = ((num - (num % 0x80)) / 0x80) - 1, for num > 0x7f
Varint2Next(num) == [neg |-> FALSE, mag |-> MagDec(MagShr7(num.mag))]

\* the size of a plain base-128 encoding, without the offset of scheme B
RECURSIVE sizeVarint2Plain(_)
sizeVarint2Plain(num) ==
    IF NumLeq(num, Num(127)) THEN 1
    ELSE 1 + sizeVarint2Plain([neg |-> FALSE, mag |-> MagShr7(num.mag)])

RECURSIVE sizeVarint2(_)
sizeVarint2(num) ==
    IF NumLeq(num, Num(127)) THEN 1
    ELSE 1 + sizeVarint2(Varint2Next(num))

RECURSIVE Varint2Tmp(_, _)
\* the array tmp of writeVarint2, tmp[0] first
Varint2Tmp(num, len) ==
    <<Low7(num) + (IF len # 0 THEN 128 ELSE 0)>>
    \o (IF NumLeq(num, Num(127)) THEN <<>>
        ELSE Varint2Tmp(Varint2Next(num), len + 1))

writeVarint2(dst, num, off) ==
    LET tmp == Varint2Tmp(num, 0)
        len == Len(tmp) - 1
        c == check(off + len + 1 <= dst.len, off)
    IN IF c # OK THEN Res(dst, off, c)
       ELSE Res(PutSeq(dst, off, Reverse(tmp)), off + len + 1, OK)

\* data[i]: the byte, or undefined outside 0..length-1 (0 in a bit operation)
Byte(data, i) == IF i >= 0 /\ i < data.len THEN data.cells[i] ELSE 0

Defined(data, i) == i >= 0 /\ i < data.len

\* a number that is not an integer: the result of arithmetic on undefined
NaN == [neg |-> FALSE, mag |-> <<>>]

\* the outcome of a read: the value returned, or the error thrown
Got(value, err) == [value |-> value, err |-> err]

\* data.readUInt32LE/BE(off, true), data.readInt32LE/BE(off, true): the four
\* bytes, least significant first.  A runtime that does not honour noAssert
\* throws RangeError outside the buffer; one that does combines the bytes
\* unchecked: an unsigned read multiplies its most significant byte, so it
\* gives NaN (no bytes) when that byte is undefined.
ReadWord(data, off, be, signed, na) ==
    LET b == [i \in 1..4 |-> Byte(data, IF be THEN off + 4 - i ELSE off + i - 1)]
        top == IF be THEN off ELSE off + 3
    IN IF off >= 0 /\ off + 4 <= data.len THEN Got(b, OK)
       ELSE IF ~na THEN Got(b, RangeError)
       ELSE IF ~signed /\ ~Defined(data, top) THEN Got(<<>>, OK)
       ELSE Got(b, OK)

\* a test of the high word that every word passes
HighBitsAny(hi) == TRUE

\* (hi & 0xffe00000) === 0 for the bytes of hi
HighBitsClear(hi) == hi[4] = 0 /\ hi[3] < 32

\* readU64, readU64BE: hi * 0x100000000 + lo
ReadU64(data, off, be, na) ==
    LET hi == ReadWord(data, IF be THEN off ELSE off + 4, be, FALSE, na)
        lo == ReadWord(data, IF be THEN off + 4 ELSE off, be, FALSE, na)
    IN IF hi.err # OK THEN Got(NaN, hi.err)
       ELSE IF lo.err # OK THEN Got(NaN, lo.err)
       ELSE IF hi.value = <<>> THEN Got(NaN, OK)
       ELSE IF ~HighBitsClear(hi.value)
       THEN Got(NaN, EncodingError(off, "Number exceeds 2^53-1"))
       ELSE IF lo.value = <<>> THEN Got(NaN, OK)
       ELSE Got([neg |-> FALSE, mag |-> lo.value \o hi.value], OK)

readU64(data, off, na) == ReadU64(data, off, FALSE, na)

readU64BE(data, off, na) == ReadU64(data, off, TRUE, na)

\* isSafe(hi, lo) for the bytes of the signed hi and of the unsigned lo
isSafe(hi, lo) ==
    IF hi[4] < 128 THEN HighBitsClear(hi)
    ELSE LET inv == [i \in 1..4 |-> 255 - hi[i]]
         IN IF IsZero(lo)
            THEN HighBitsClear(MagInc(inv))
            ELSE HighBitsClear(inv)

\* the magnitude of the negative number hi * 0x100000000 + lo
NegMag(b) == MagInc([i \in 1..Len(b) |-> 255 - b[i]])

\* the offset of an error whose offset argument was not a number
NoOffset == -1

\* readI64, readI64BE: enforce(isSafe(hi, lo), 'Number exceeds 2^53-1') hands
\* the text to enforce as the offset, and no reason
ReadI64(data, off, be, na) ==
    LET hi == ReadWord(data, IF be THEN off ELSE off + 4, be, TRUE, na)
        lo == ReadWord(data, IF be THEN off + 4 ELSE off, be, FALSE, na)
        b == lo.value \o hi.value
    IN IF hi.err # OK THEN Got(NaN, hi.err)
       ELSE IF lo.err # OK THEN Got(NaN, lo.err)
       ELSE IF lo.value = <<>> THEN Got(NaN, OK)
       ELSE IF ~isSafe(hi.value, lo.value)
       THEN Got(NaN, EncodingError(NoOffset, "undefined"))
       ELSE IF hi.value[4] < 128 THEN Got([neg |-> FALSE, mag |-> b], OK)
       ELSE Got([neg |-> TRUE, mag |-> NegMag(b)], OK)

readI64(data, off, na) == ReadI64(data, off, FALSE, na)

readI64BE(data, off, na) == ReadI64(data, off, TRUE, na)

\* The varint read: new Varint(size, value), or the error thrown
Varint(size, value) == [size |-> size, value |-> value, err |-> OK]

Thrown(err) == [size |-> 0, value |-> NaN, err |-> err]

\* readVarint reading every first byte as a one-byte form
readVarintShort(data, off, na) ==
    IF check(off < data.len, off) # OK THEN Thrown(check(off < data.len, off))
    ELSE Varint(1, Num(Byte(data, off)))

readVarint(data, off, na) ==
    LET Long(size) ==
            IF check(off + size <= data.len, off) # OK
            THEN Thrown(check(off + size <= data.len, off))
            ELSE IF size = 9
            THEN LET Rest(r) ==
                         IF r.err # OK THEN Thrown(r.err)
                         ELSE IF ~NumLt(MaxU32, r.value)
                         THEN Thrown(EncodingError(off, "Non-canonical varint"))
                         ELSE Varint(9, r.value)
                 IN Rest(readU64(data, off + 1, na))
            ELSE IF size = 5
            THEN LET Rest(r) ==
                         IF r.err # OK THEN Thrown(r.err)
                         ELSE IF ~NumLt(Num(65535), Num32(r.value))
                         THEN Thrown(EncodingError(off, "Non-canonical varint"))
                         ELSE Varint(5, Num32(r.value))
                 IN Rest(ReadWord(data, off + 1, FALSE, FALSE, na))
            ELSE LET value == Num(Byte(data, off + 1) + 256 * Byte(data, off + 2))
                 IN IF NumLt(value, Num(253))
                    THEN Thrown(EncodingError(off, "Non-canonical varint"))
                    ELSE Varint(3, value)
    IN IF check(off < data.len, off) # OK THEN Thrown(check(off < data.len, off))
       ELSE IF Byte(data, off) = 255 THEN Long(9)
       ELSE IF Byte(data, off) = 254 THEN Long(5)
       ELSE IF Byte(data, off) = 253 THEN Long(3)
       ELSE Varint(1, Num(Byte(data, off)))

\* a limit every accumulator passes
Varint2NoLimit(ch) ==
    [neg |-> FALSE, mag |-> <<255, 255, 255, 255, 255, 255, 255, 255>>]

\* 0x3fffffffffff - (ch & 0x7f)
Varint2Limit(ch) ==
    [neg |-> FALSE, mag |-> <<255 - (ch % 128), 255, 255, 255, 255, 63, 0, 0>>]

\* num * 0x80 + (ch & 0x7f), exact below 2^53
Varint2Push(num, ch) ==
    [neg |-> FALSE,
     mag |-> [MagShl7(num.mag) EXCEPT ![1] = @ + (ch % 128)]]

\* the loop of a reader that adds no 1 after a continuation byte
RECURSIVE Varint2LoopPlain(_, _, _, _)
Varint2LoopPlain(data, off, num, size) ==
    IF check(off < data.len, off) # OK THEN Thrown(check(off < data.len, off))
    ELSE IF ~NumLeq(num, Varint2Limit(Byte(data, off)))
    THEN Thrown(EncodingError(off + 1, "Number exceeds 2^53-1"))
    ELSE IF Byte(data, off) < 128
    THEN Varint(size + 1, Varint2Push(num, Byte(data, off)))
    ELSE Varint2LoopPlain(data, off + 1, Varint2Push(num, Byte(data, off)),
                          size + 1)

RECURSIVE Varint2Loop(_, _, _, _)
Varint2Loop(data, off, num, size) ==
    IF check(off < data.len, off) # OK THEN Thrown(check(off < data.len, off))
    ELSE IF ~NumLeq(num, Varint2Limit(Byte(data, off)))
    THEN Thrown(EncodingError(off + 1, "Number exceeds 2^53-1"))
    ELSE IF Byte(data, off) < 128
    THEN Varint(size + 1, Varint2Push(num, Byte(data, off)))
    ELSE IF Varint2Push(num, Byte(data, off)) = MAX_SAFE_INTEGER
    THEN Thrown(EncodingError(off + 1, "Number exceeds 2^53-1"))
    ELSE Varint2Loop(data, off + 1,
                     [neg |-> FALSE,
                      mag |-> MagInc(Varint2Push(num, Byte(data, off)).mag)],
                     size + 1)

readVarint2(data, off) == Varint2Loop(data, off, Num(0), 0)

\* An extended-precision integer of the n64 library: the sign flag of its
\* class (U64 FALSE, I64 TRUE) and its eight bytes, least significant first;
\* lo is bytes 1..4 and hi is bytes 5..8.
NewU64(b) == [sign |-> FALSE, b |-> b]

NewI64(b) == [sign |-> TRUE, b |-> b]

\* a test of the high word that never finds it set
HiSetNever(num) == FALSE

\* num.hi !== 0
HiSet(num) == ~IsZero(SubSeq(num.b, 5, 8))

\* num.toInt() of a U64: lo >>> 0
toInt(num) == Num32(SubSeq(num.b, 1, 4))

\* U64.fromInt(value) for the value of a short varint
fromInt(value) == NewU64(value.mag)

UINT64_MAX == NewU64(<<255, 255, 255, 255, 255, 255, 255, 255>>)

\* U64.UINT64_MAX.shrn(7)
BASE128_MAX == NewU64(MagShr7(UINT64_MAX.b))

\* U64.readLE(data, off) of n64, within the buffer: the eight bytes at off,
\* least significant first, as the low and the high word
readLE(data, off) == NewU64([i \in 1..8 |-> Byte(data, off + i - 1)])

\* num.writeLE(dst, off) of n64, within the buffer: the low word and then
\* the high word, least significant byte first; returns off + 8
writeLE(num, dst, off) == Res(PutSeq(dst, off, num.b), off + 8, OK)

readU64N(data, off) == readLE(data, off)

writeU64N(dst, num, off) ==
    IF num.sign THEN Res(dst, off, EncodingError(off, "Signed"))
    ELSE writeLE(num, dst, off)

\* num.writeBE(dst, off) of n64, within the buffer: the high word and then
\* the low word, most significant byte first; returns off + 8
writeBE(num, dst, off) == Res(PutSeq(dst, off, Reverse(num.b)), off + 8, OK)

writeU64BEN(dst, num, off) ==
    IF num.sign THEN Res(dst, off, EncodingError(off, "Signed"))
    ELSE writeBE(num, dst, off)

\* writeI64N with no check of the sign flag
writeI64NAny(dst, num, off) == writeLE(num, dst, off)

writeI64N(dst, num, off) ==
    IF ~num.sign THEN Res(dst, off, EncodingError(off, "Not signed"))
    ELSE writeLE(num, dst, off)

writeI64BEN(dst, num, off) ==
    IF ~num.sign THEN Res(dst, off, EncodingError(off, "Not signed"))
    ELSE writeBE(num, dst, off)

readVarintN(data, off, na) ==
    IF check(off < data.len, off) # OK THEN Thrown(check(off < data.len, off))
    ELSE IF Byte(data, off) = 255
    THEN IF check(off + 9 <= data.len, off) # OK
         THEN Thrown(check(off + 9 <= data.len, off))
         ELSE IF ~HiSet(readU64N(data, off + 1))
         THEN Thrown(EncodingError(off, "Non-canonical varint"))
         ELSE Varint(9, readU64N(data, off + 1))
    ELSE LET Rest(r) == IF r.err # OK THEN r ELSE Varint(r.size, fromInt(r.value))
         IN Rest(readVarint(data, off, na))

writeVarintN(dst, num, off, na) ==
    IF num.sign THEN Res(dst, off, EncodingError(off, "Signed"))
    ELSE IF HiSet(num) THEN writeU64N(Put(dst, off, 255), num, off + 1)
    ELSE writeVarint(dst, toInt(num), off, na)

sizeVarintN(num) ==
    IF num.sign THEN Got(0, EncodingError(0, "Signed"))
    ELSE IF HiSet(num) THEN Got(9, OK)
    ELSE Got(sizeVarint(toInt(num)), OK)

RECURSIVE Varint2NLoop(_, _, _, _)
Varint2NLoop(data, off, num, size) ==
    IF check(off < data.len, off) # OK THEN Thrown(check(off < data.len, off))
    ELSE IF ~MagLeq(num, BASE128_MAX.b)
    THEN Thrown(EncodingError(off + 1, "Number exceeds 2^64-1"))
    ELSE LET next == [MagShl7(num) EXCEPT ![1] = @ + (Byte(data, off) % 128)]
         IN IF Byte(data, off) < 128 THEN Varint(size + 1, NewU64(next))
            ELSE IF next = UINT64_MAX.b
            THEN Thrown(EncodingError(off + 1, "Number exceeds 2^64-1"))
            ELSE Varint2NLoop(data, off + 1, MagInc(next), size + 1)

readVarint2N(data, off) == Varint2NLoop(data, off, <<0, 0, 0, 0, 0, 0, 0, 0>>, 0)

\* num.lten(0x7f)
Lten127(b) == IsZero(SubSeq(b, 2, 8)) /\ b[1] <= 127

RECURSIVE sizeVarint2NLoop(_)
sizeVarint2NLoop(b) ==
    IF Lten127(b) THEN 1 ELSE 1 + sizeVarint2NLoop(MagDec(MagShr7(b)))

sizeVarint2N(num) ==
    IF num.sign THEN Got(0, EncodingError(0, "Signed"))
    ELSE IF ~HiSet(num) THEN Got(sizeVarint2(toInt(num)), OK)
    ELSE Got(sizeVarint2NLoop(num.b), OK)

RECURSIVE Varint2NTmp(_, _)
Varint2NTmp(b, len) ==
    <<(b[1] % 128) + (IF len # 0 THEN 128 ELSE 0)>>
        \o (IF Lten127(b) THEN <<>> ELSE Varint2NTmp(MagDec(MagShr7(b)), len + 1))

writeVarint2N(dst, num, off) ==
    IF num.sign THEN Res(dst, off, EncodingError(off, "Signed"))
    ELSE IF ~HiSet(num) THEN writeVarint2(dst, toInt(num), off)
    ELSE LET tmp == Varint2NTmp(num.b, 0)
             c == enforce(off + Len(tmp) <= dst.len, off, "Out of bounds write")
         IN IF c # OK THEN Res(dst, off, c)
            ELSE Res(PutSeq(dst, off, Reverse(tmp)), off + Len(tmp), OK)

-----------------------------------------------------------------------------
(* The hash functions handed to writeChecksum: from the bytes written so    *)
(* far to a digest (longer than the 4 bytes a checksum keeps).              *)

RECURSIVE SumSeq(_)
SumSeq(s) == IF s = <<>> THEN 0 ELSE Head(s) + SumSeq(Tail(s))

Hash(func, P) ==
    IF func = "sum"
    THEN <<(SumSeq(P) + 1) % 256, Len(P) % 256,
           (IF P = <<>> THEN 7 ELSE (P[1] + 3 * P[Len(P)]) % 256), 90, 165>>
    ELSE <<Len(P) % 256, 17>>

-----------------------------------------------------------------------------
(* writer.ts: the operation records of BufferWriter *)

SEEK == 0
UI8 == 1
UI16 == 2
UI16BE == 3
UI32 == 4
UI32BE == 5
UI64 == 6
UI64BE == 7
I8 == 10
I16 == 11
I16BE == 12
I32 == 13
I32BE == 14
I64 == 15
I64BE == 16
VARINT == 23
VARINT2 == 25
BYTES == 27
STR == 28
CHECKSUM == 29
FILL == 30

NumberOp(type, value) == [type |-> type, value |-> value]

BufferOp(type, data) == [type |-> type, data |-> data]

StringOp(type, value, enc) == [type |-> type, value |-> value, enc |-> enc]

FunctionOp(type, func) == [type |-> type, func |-> func]

FillOp(type, value, size) == [type |-> type, value |-> value, size |-> size]

\* what a method leaves: the writer and the outcome (OK: it returned this)
Ret(w, err) == [w |-> w, err |-> err]

-----------------------------------------------------------------------------
(* writer.ts: BufferWriter *)

\* constructor
BufferWriter == [ops |-> <<>>, offset |-> 0]

\* this.offset += n; this.ops.push(op)
BW_push(w, n, op) == [ops |-> Append(w.ops, op), offset |-> w.offset + n]

BW_getSize(w) == w.offset

\* a destroy() that keeps the queue and the total
BW_keep(w) == w

BW_destroy(w) == [ops |-> <<>>, offset |-> 0]

BW_seek(w, offset) == Ret(BW_push(w, offset, NumberOp(SEEK, offset)), OK)

BW_writeU8(w, value) == Ret(BW_push(w, 1, NumberOp(UI8, value)), OK)

BW_writeU16(w, value) == Ret(BW_push(w, 2, NumberOp(UI16, value)), OK)

BW_writeU16BE(w, value) == Ret(BW_push(w, 2, NumberOp(UI16BE, value)), OK)

BW_writeU32(w, value) == Ret(BW_push(w, 4, NumberOp(UI32, value)), OK)

BW_writeU32BE(w, value) == Ret(BW_push(w, 4, NumberOp(UI32BE, value)), OK)

BW_writeU64(w, value) == Ret(BW_push(w, 8, NumberOp(UI64, value)), OK)

BW_writeU64BE(w, value) == Ret(BW_push(w, 8, NumberOp(UI64BE, value)), OK)

BW_writeI8(w, value) == Ret(BW_push(w, 1, NumberOp(I8, value)), OK)

BW_writeI16(w, value) == Ret(BW_push(w, 2, NumberOp(I16, value)), OK)

BW_writeI16BE(w, value) == Ret(BW_push(w, 2, NumberOp(I16BE, value)), OK)

BW_writeI32(w, value) == Ret(BW_push(w, 4, NumberOp(I32, value)), OK)

BW_writeI32BE(w, value) == Ret(BW_push(w, 4, NumberOp(I32BE, value)), OK)

BW_writeI64(w, value) == Ret(BW_push(w, 8, NumberOp(I64, value)), OK)

BW_writeI64BE(w, value) == Ret(BW_push(w, 8, NumberOp(I64BE, value)), OK)

BW_writeVarint(w, value) ==
    Ret(BW_push(w, sizeVarint(value), NumberOp(VARINT, value)), OK)

BW_writeVarint2(w, value) ==
    Ret(BW_push(w, sizeVarint2(value), NumberOp(VARINT2, value)), OK)

BW_writeBytes(w, value) ==
    IF Len(value) = 0 THEN Ret(w, OK)
    ELSE Ret(BW_push(w, Len(value), BufferOp(BYTES, value)), OK)

BW_writeVarBytes(w, value) ==
    LET w1 == BW_push(w, sizeVarint(Num(Len(value))),
                      NumberOp(VARINT, Num(Len(value))))
    IN IF Len(value) = 0 THEN Ret(w1, OK)
       ELSE Ret(BW_push(w1, Len(value), BufferOp(BYTES, value)), OK)

BW_copy(w, value, start, end) ==
    IF ~(end >= start) THEN Ret(w, AssertionError)
    ELSE BW_writeBytes(w, BufSlice(value, start, end))

BW_writeString(w, value, enc) ==
    IF Len(value) = 0 THEN Ret(w, OK)
    ELSE Ret(BW_push(w, byteLength(value, enc), StringOp(STR, value, enc)), OK)

\* value: [str |-> TRUE, v |-> the text] or [str |-> FALSE, v |-> the bytes]
BW_writeHash(w, value) ==
    IF ~value.str
    THEN IF Len(value.v) # 32 THEN Ret(w, AssertionError)
         ELSE BW_writeBytes(w, value.v)
    ELSE IF Len(value.v) # 64 THEN Ret(w, AssertionError)
         ELSE BW_writeString(w, value.v, "hex")

BW_writeVarString(w, value, enc) ==
    IF Len(value) = 0
    THEN Ret([w EXCEPT !.ops = Append(@, NumberOp(VARINT, Num(0)))], OK)
    ELSE LET size == byteLength(value, enc)
             w1 == [w EXCEPT !.offset = @ + sizeVarint(Num(size)) + size]
         IN Ret([w1 EXCEPT !.ops = @ \o <<NumberOp(VARINT, Num(size)),
                                          StringOp(STR, value, enc)>>], OK)

BW_writeNullString(w, value, enc) ==
    BW_writeU8(BW_writeString(w, value, enc).w, 0)

BW_writeChecksum(w, hash) == Ret(BW_push(w, 4, FunctionOp(CHECKSUM, hash)), OK)

BW_fill(w, value, size) ==
    IF ~(size >= 0) THEN Ret(w, AssertionError)
    ELSE IF size = 0 THEN Ret(w, OK)
    ELSE Ret(BW_push(w, size, FillOp(FILL, value, size)), OK)

\* one case of the switch of render()
ReplayOp(op, data, off, na, g) ==
    CASE op.type = SEEK -> Res(data, off + op.value, OK)
      [] op.type = UI8 -> WriteInt(data, op.value, off, 1, FALSE, FALSE, na)
      [] op.type = UI16 -> WriteInt(data, op.value, off, 2, FALSE, FALSE, na)
      [] op.type = UI16BE -> WriteInt(data, op.value, off, 2, TRUE, FALSE, na)
      [] op.type = UI32 -> WriteInt(data, op.value, off, 4, FALSE, FALSE, na)
      [] op.type = UI32BE -> WriteInt(data, op.value, off, 4, TRUE, FALSE, na)
      [] op.type = UI64 -> writeU64(data, op.value, off, na)
      [] op.type = UI64BE -> writeU64BE(data, op.value, off, na)
      [] op.type = I8 -> WriteInt(data, op.value, off, 1, FALSE, TRUE, na)
      [] op.type = I16 -> WriteInt(data, op.value, off, 2, FALSE, TRUE, na)
      [] op.type = I16BE -> WriteInt(data, op.value, off, 2, TRUE, TRUE, na)
      [] op.type = I32 -> WriteInt(data, op.value, off, 4, FALSE, TRUE, na)
      [] op.type = I32BE -> WriteInt(data, op.value, off, 4, TRUE, TRUE, na)
      [] op.type = I64 -> writeI64(data, op.value, off, na)
      [] op.type = I64BE -> writeI64BE(data, op.value, off, na)
      [] op.type = VARINT -> writeVarint(data, op.value, off, na)
      [] op.type = VARINT2 -> writeVarint2(data, op.value, off)
      [] op.type = BYTES ->
            LET c == BufCopy(op.data, data, off, 0, Len(op.data))
            IN Res(c.data, off + c.n, c.err)
      [] op.type = STR ->
            LET c == BufWrite(data, op.value, off, op.enc)
            IN Res(c.data, off + c.n, c.err)
      [] op.type = CHECKSUM ->
            LET e == SliceIndex(off, data.len)
                d == Settle(data, 0, e, g)
                c == BufCopy(Hash(op.func, ReadSeq(data, 0, e, g)), d, off, 0, 4)
            IN Res(c.data, off + c.n, c.err)
      [] op.type = FILL ->
            LET f == BufFill(data, op.value, off, off + op.size)
            IN Res(f.data, off + op.size, f.err)

RECURSIVE ReplayLifo(_, _, _, _, _)
\* a loop that takes the operations from the end of the queue
ReplayLifo(ops, data, off, na, g) ==
    IF ops = <<>> THEN Res(data, off, OK)
    ELSE LET Rest(r) ==
                IF r.err # OK THEN r
                ELSE ReplayLifo(SubSeq(ops, 1, Len(ops) - 1), r.data, r.off,
                                na, g)
         IN Rest(ReplayOp(ops[Len(ops)], data, off, na, g))

RECURSIVE Replay(_, _, _, _, _)
\* the loop of render(): the operations in queue order, until one throws
Replay(ops, data, off, na, g) ==
    IF ops = <<>> THEN Res(data, off, OK)
    ELSE LET Rest(r) ==
                IF r.err # OK THEN r
                ELSE Replay(Tail(ops), r.data, r.off, na, g)
         IN Rest(ReplayOp(Head(ops), data, off, na, g))

\* a render() without the comparison of the final position with the length
RenderUnchecked(w, na, g) ==
    IF w.offset < 0
    THEN [w |-> w, err |-> RangeError, data |-> EMPTY, off |-> 0, len |-> 0,
          ran |-> FALSE]
    ELSE LET End(r) ==
                IF r.err # OK
                THEN [w |-> w, err |-> r.err, data |-> EMPTY, off |-> r.off,
                      len |-> r.data.len, ran |-> FALSE]
                ELSE [w |-> BW_destroy(w), err |-> OK, data |-> r.data,
                      off |-> r.off, len |-> r.data.len, ran |-> TRUE]
         IN End(Replay(w.ops, allocUnsafe(w.offset), 0, na, g))

\* a render() that clears the writer before it compares the final position
\* with the length
BW_renderClearing(w, na, g) ==
    IF w.offset < 0
    THEN [w |-> w, err |-> RangeError, data |-> EMPTY, off |-> 0, len |-> 0,
          ran |-> FALSE]
    ELSE LET End(r) ==
                IF r.err # OK
                THEN [w |-> w, err |-> r.err, data |-> EMPTY, off |-> r.off,
                      len |-> r.data.len, ran |-> FALSE]
                ELSE IF r.off # r.data.len
                THEN [w |-> BW_destroy(w),
                      err |-> EncodingError(r.off, "Out of bounds write"),
                      data |-> EMPTY, off |-> r.off, len |-> r.data.len,
                      ran |-> TRUE]
                ELSE [w |-> BW_destroy(w), err |-> OK, data |-> r.data,
                      off |-> r.off, len |-> r.data.len, ran |-> TRUE]
         IN End(Replay(w.ops, allocUnsafe(w.offset), 0, na, g))

\* render(): the writer it leaves, the outcome, the array returned (on OK),
\* and off and data.length where the loop ended (ran: the loop ran to its end)
BW_render(w, na, g) ==
    IF w.offset < 0
    THEN [w |-> w, err |-> RangeError, data |-> EMPTY, off |-> 0, len |-> 0,
          ran |-> FALSE]
    ELSE LET End(r) ==
                IF r.err # OK
                THEN [w |-> w, err |-> r.err, data |-> EMPTY, off |-> r.off,
                      len |-> r.data.len, ran |-> FALSE]
                ELSE IF r.off # r.data.len
                THEN [w |-> w,
                      err |-> EncodingError(r.off, "Out of bounds write"),
                      data |-> EMPTY, off |-> r.off, len |-> r.data.len,
                      ran |-> TRUE]
                ELSE [w |-> BW_destroy(w), err |-> OK, data |-> r.data,
                      off |-> r.off, len |-> r.data.len, ran |-> TRUE]
         IN End(Replay(w.ops, allocUnsafe(w.offset), 0, na, g))

-----------------------------------------------------------------------------
(* sizewriter.ts: SizeWriter *)

\* constructor
SizeWriter == [offset |-> 0]

SZ_add(w, n) == Ret([offset |-> w.offset + n], OK)

SZ_getSize(w) == w.offset

SZ_destroy(w) == [offset |-> 0]

\* render(): the writer it leaves and the size returned
SZ_render(w) == [w |-> SZ_destroy(w), err |-> OK, size |-> w.offset]

SZ_seek(w, offset) == SZ_add(w, offset)

SZ_writeU8(w, value) == SZ_add(w, 1)

SZ_writeU16(w, value) == SZ_add(w, 2)

SZ_writeU16BE(w, value) == SZ_add(w, 2)

SZ_writeU32(w, value) == SZ_add(w, 4)

SZ_writeU32BE(w, value) == SZ_add(w, 4)

SZ_writeU64(w, value) == SZ_add(w, 8)

SZ_writeU64BE(w, value) == SZ_add(w, 8)

SZ_writeI8(w, value) == SZ_add(w, 1)

SZ_writeI16(w, value) == SZ_add(w, 2)

SZ_writeI16BE(w, value) == SZ_add(w, 2)

SZ_writeI32(w, value) == SZ_add(w, 4)

SZ_writeI32BE(w, value) == SZ_add(w, 4)

SZ_writeI64(w, value) == SZ_add(w, 8)

SZ_writeI64BE(w, value) == SZ_add(w, 8)

SZ_writeVarint(w, value) == SZ_add(w, sizeVarint(value))

SZ_writeVarint2(w, value) == SZ_add(w, sizeVarint2(value))

SZ_writeBytes(w, value) == SZ_add(w, Len(value))

SZ_writeVarBytes(w, value) ==
    SZ_writeBytes(SZ_writeVarint(w, Num(Len(value))).w, value)

SZ_copy(w, value, start, end) == SZ_add(w, end - start)

SZ_writeString(w, value, enc) ==
    IF Len(value) = 0 THEN Ret(w, OK) ELSE SZ_add(w, byteLength(value, enc))

SZ_writeHash(w, value) == SZ_add(w, 32)

SZ_writeVarString(w, value, enc) ==
    IF Len(value) = 0 THEN SZ_add(w, 1)
    ELSE LET size == byteLength(value, enc)
         IN SZ_add(SZ_writeVarint(w, Num(size)).w, size)

SZ_writeNullString(w, value, enc) ==
    SZ_writeU8(SZ_writeString(w, value, enc).w, 0)

SZ_writeChecksum(w, hash) == SZ_add(w, 4)

SZ_fill(w, value, size) == SZ_add(w, size)

-----------------------------------------------------------------------------
(* writer.ts, second half (staticwriter): StaticWriter *)

\* constructor without options
StaticWriter == [data |-> EMPTY, offset |-> 0]

\* init(options) with a number: assert((options >>> 0) === options)
SW_init(options) ==
    IF options < 0 THEN Ret(StaticWriter, AssertionError)
    ELSE Ret([data |-> allocUnsafe(options), offset |-> 0], OK)

SW_getSize(w) == w.offset

SW_destroy(w) == [data |-> EMPTY, offset |-> 0]

\* this.offset = <a primitive that returns the new offset or throws>
SW_set(w, r) ==
    IF r.err # OK THEN Ret(w, r.err)
    ELSE Ret([data |-> r.data, offset |-> r.off], OK)

\* a seek to an absolute position
SW_seekTo(w, offset) == Ret([w EXCEPT !.offset = offset], OK)

SW_seek(w, offset) == Ret([w EXCEPT !.offset = @ + offset], OK)

SW_writeU8(w, value, na) ==
    SW_set(w, WriteInt(w.data, value, w.offset, 1, FALSE, FALSE, na))

SW_writeU16(w, value, na) ==
    SW_set(w, WriteInt(w.data, value, w.offset, 2, FALSE, FALSE, na))

SW_writeU16BE(w, value, na) ==
    SW_set(w, WriteInt(w.data, value, w.offset, 2, TRUE, FALSE, na))

SW_writeU32(w, value, na) ==
    SW_set(w, WriteInt(w.data, value, w.offset, 4, FALSE, FALSE, na))

SW_writeU32BE(w, value, na) ==
    SW_set(w, WriteInt(w.data, value, w.offset, 4, TRUE, FALSE, na))

SW_writeU64(w, value, na) == SW_set(w, writeU64(w.data, value, w.offset, na))

SW_writeU64BE(w, value, na) ==
    SW_set(w, writeU64BE(w.data, value, w.offset, na))

SW_writeI8(w, value, na) ==
    SW_set(w, WriteInt(w.data, value, w.offset, 1, FALSE, TRUE, na))

SW_writeI16(w, value, na) ==
    SW_set(w, WriteInt(w.data, value, w.offset, 2, FALSE, TRUE, na))

SW_writeI16BE(w, value, na) ==
    SW_set(w, WriteInt(w.data, value, w.offset, 2, TRUE, TRUE, na))

SW_writeI32(w, value, na) ==
    SW_set(w, WriteInt(w.data, value, w.offset, 4, FALSE, TRUE, na))

SW_writeI32BE(w, value, na) ==
    SW_set(w, WriteInt(w.data, value, w.offset, 4, TRUE, TRUE, na))

SW_writeI64(w, value, na) == SW_set(w, writeI64(w.data, value, w.offset, na))

SW_writeI64BE(w, value, na) ==
    SW_set(w, writeI64BE(w.data, value, w.offset, na))

SW_writeVarint(w, value, na) ==
    SW_set(w, writeVarint(w.data, value, w.offset, na))

SW_writeVarint2(w, value) == SW_set(w, writeVarint2(w.data, value, w.offset))

SW_writeBytes(w, value) ==
    IF Len(value) = 0 THEN Ret(w, OK)
    ELSE LET c == BufCopy(value, w.data, w.offset, 0, Len(value))
         IN IF c.err # OK THEN Ret(w, c.err)
            ELSE Ret([data |-> c.data, offset |-> w.offset + Len(value)], OK)

SW_writeVarBytes(w, value, na) ==
    LET r == SW_writeVarint(w, Num(Len(value)), na)
    IN IF r.err # OK THEN r ELSE SW_writeBytes(r.w, value)

SW_copy(w, value, start, end) ==
    LET len == end - start
    IN IF len = 0 THEN Ret(w, OK)
       ELSE LET c == BufCopy(value, w.data, w.offset, start, end)
            IN IF c.err # OK THEN Ret(w, c.err)
               ELSE Ret([data |-> c.data, offset |-> w.offset + len], OK)

\* this.data.write(value, this.offset, undefined, enc); this.offset += size
SW_write(w, value, enc, size) ==
    LET c == BufWrite(w.data, value, w.offset, enc)
    IN IF c.err # OK THEN Ret(w, c.err)
       ELSE Ret([data |-> c.data, offset |-> w.offset + size], OK)

SW_writeString(w, value, enc) ==
    IF Len(value) = 0 THEN Ret(w, OK)
    ELSE SW_write(w, value, enc, byteLength(value, enc))

SW_writeHash(w, value) ==
    IF ~value.str
    THEN IF Len(value.v) # 32 THEN Ret(w, AssertionError)
         ELSE SW_writeBytes(w, value.v)
    ELSE IF Len(value.v) # 64 THEN Ret(w, AssertionError)
         ELSE SW_write(w, value.v, "hex", 32)

SW_writeVarString(w, value, enc, na) ==
    IF Len(value) = 0 THEN SW_writeVarint(w, Num(0), na)
    ELSE LET size == byteLength(value, enc)
             r == SW_writeVarint(w, Num(size), na)
         IN IF r.err # OK THEN r ELSE SW_write(r.w, value, enc, size)

SW_writeNullString(w, value, enc, na) ==
    LET r == SW_writeString(w, value, enc)
    IN IF r.err # OK THEN r ELSE SW_writeU8(r.w, 0, na)

SW_writeChecksum(w, hash, g) ==
    LET e == SliceIndex(w.offset, w.data.len)
        d == Settle(w.data, 0, e, g)
        c == BufCopy(Hash(hash, ReadSeq(w.data, 0, e, g)), d, w.offset, 0, 4)
    IN IF c.err # OK THEN Ret(w, c.err)
       ELSE Ret([data |-> c.data, offset |-> w.offset + 4], OK)

SW_fill(w, value, size) ==
    IF ~(size >= 0) THEN Ret(w, AssertionError)
    ELSE IF size = 0 THEN Ret(w, OK)
    ELSE LET f == BufFill(w.data, value, w.offset, w.offset + size)
         IN IF f.err # OK THEN Ret(w, f.err)
            ELSE Ret([data |-> f.data, offset |-> w.offset + size], OK)

\* data.slice(0, end) of a Buffer: the first bytes of the same memory
BufHead(data, end) ==
    LET e == SliceIndex(end, data.len)
    IN [len |-> e, cells |-> [i \in DOMAIN data.cells \cap (0..(e - 1)) |->
                                 data.cells[i]]]

\* render(): the writer it leaves, the outcome, the array returned (on OK)
SW_render(w) ==
    IF w.offset # w.data.len
    THEN [w |-> w, err |-> EncodingError(w.offset, "Out of bounds write"),
          data |-> EMPTY]
    ELSE [w |-> SW_destroy(w), err |-> OK, data |-> w.data]

\* slice()
SW_slice(w) ==
    IF w.offset > w.data.len
    THEN [w |-> w, err |-> EncodingError(w.offset, "Out of bounds write"),
          data |-> EMPTY]
    ELSE [w |-> SW_destroy(w), err |-> OK, data |-> BufHead(w.data, w.offset)]

-----------------------------------------------------------------------------
(* The calls a caller makes on a writer (IWriter), and their dispatch to    *)
(* the writer the caller holds.                                             *)

Raw32 == [i \in 1..32 |-> i]

Hex64 == [i \in 1..64 |-> IF i % 2 = 1 THEN 97 ELSE 48 + (i % 10)]

CallList == <<
    [m |-> "writeU8", value |-> 18],
    [m |-> "writeU16", value |-> 4660],
    [m |-> "writeU16BE", value |-> 4660],
    [m |-> "writeU32", value |-> 16909060],
    [m |-> "writeU32BE", value |-> 16909060],
    [m |-> "writeU64", value |-> Num(16909060)],
    [m |-> "writeU64BE", value |-> Num(16909060)],
    [m |-> "writeI8", value |-> -2],
    [m |-> "writeI16", value |-> -2],
    [m |-> "writeI16BE", value |-> -2],
    [m |-> "writeI32", value |-> -2],
    [m |-> "writeI32BE", value |-> -2],
    [m |-> "writeI64", value |-> Num(-2)],
    [m |-> "writeI64BE", value |-> Num(-2)],
    [m |-> "writeVarint", value |-> Num(252)],
    [m |-> "writeVarint", value |-> Num(253)],
    [m |-> "writeVarint", value |-> Num(65536)],
    [m |-> "writeVarint2", value |-> Num(300)],
    [m |-> "writeBytes", value |-> <<>>],
    [m |-> "writeBytes", value |-> <<1, 2>>],
    [m |-> "writeVarBytes", value |-> <<>>],
    [m |-> "writeVarBytes", value |-> <<1, 2>>],
    [m |-> "copy", value |-> <<1, 2, 3>>, start |-> 1, end |-> 3],
    [m |-> "copy", value |-> <<1, 2, 3>>, start |-> 1, end |-> 5],
    [m |-> "writeString", value |-> <<>>, enc |-> ""],
    [m |-> "writeString", value |-> <<97, 233>>, enc |-> ""],
    [m |-> "writeString", value |-> <<48, 97, 102, 102>>, enc |-> "hex"],
    [m |-> "writeHash", value |-> [str |-> FALSE, v |-> Raw32]],
    [m |-> "writeHash", value |-> [str |-> TRUE, v |-> Hex64]],
    [m |-> "writeHash", value |-> [str |-> FALSE, v |-> SubSeq(Raw32, 1, 31)]],
    [m |-> "writeHash", value |-> [str |-> TRUE, v |-> SubSeq(Hex64, 1, 62)]],
    [m |-> "writeVarString", value |-> <<>>, enc |-> ""],
    [m |-> "writeVarString", value |-> <<97, 233>>, enc |-> ""],
    [m |-> "writeNullString", value |-> <<97>>, enc |-> ""],
    [m |-> "writeChecksum", hash |-> "sum"],
    [m |-> "fill", value |-> 7, size |-> 0],
    [m |-> "fill", value |-> 7, size |-> 2],
    [m |-> "seek", offset |-> 1],
    [m |-> "seek", offset |-> -1] >>

\* the values an uninitialised byte is read as
UninitBytes == {0, 170}

BW_call(w, c) ==
    CASE c.m = "seek" -> BW_seek(w, c.offset)
      [] c.m = "writeU8" -> BW_writeU8(w, c.value)
      [] c.m = "writeU16" -> BW_writeU16(w, c.value)
      [] c.m = "writeU16BE" -> BW_writeU16BE(w, c.value)
      [] c.m = "writeU32" -> BW_writeU32(w, c.value)
      [] c.m = "writeU32BE" -> BW_writeU32BE(w, c.value)
      [] c.m = "writeU64" -> BW_writeU64(w, c.value)
      [] c.m = "writeU64BE" -> BW_writeU64BE(w, c.value)
      [] c.m = "writeI8" -> BW_writeI8(w, c.value)
      [] c.m = "writeI16" -> BW_writeI16(w, c.value)
      [] c.m = "writeI16BE" -> BW_writeI16BE(w, c.value)
      [] c.m = "writeI32" -> BW_writeI32(w, c.value)
      [] c.m = "writeI32BE" -> BW_writeI32BE(w, c.value)
      [] c.m = "writeI64" -> BW_writeI64(w, c.value)
      [] c.m = "writeI64BE" -> BW_writeI64BE(w, c.value)
      [] c.m = "writeVarint" -> BW_writeVarint(w, c.value)
      [] c.m = "writeVarint2" -> BW_writeVarint2(w, c.value)
      [] c.m = "writeBytes" -> BW_writeBytes(w, c.value)
      [] c.m = "writeVarBytes" -> BW_writeVarBytes(w, c.value)
      [] c.m = "copy" -> BW_copy(w, c.value, c.start, c.end)
      [] c.m = "writeString" -> BW_writeString(w, c.value, c.enc)
      [] c.m = "writeHash" -> BW_writeHash(w, c.value)
      [] c.m = "writeVarString" -> BW_writeVarString(w, c.value, c.enc)
      [] c.m = "writeNullString" -> BW_writeNullString(w, c.value, c.enc)
      [] c.m = "writeChecksum" -> BW_writeChecksum(w, c.hash)
      [] c.m = "fill" -> BW_fill(w, c.value, c.size)

SZ_call(w, c) ==
    CASE c.m = "seek" -> SZ_seek(w, c.offset)
      [] c.m = "writeU8" -> SZ_writeU8(w, c.value)
      [] c.m = "writeU16" -> SZ_writeU16(w, c.value)
      [] c.m = "writeU16BE" -> SZ_writeU16BE(w, c.value)
      [] c.m = "writeU32" -> SZ_writeU32(w, c.value)
      [] c.m = "writeU32BE" -> SZ_writeU32BE(w, c.value)
      [] c.m = "writeU64" -> SZ_writeU64(w, c.value)
      [] c.m = "writeU64BE" -> SZ_writeU64BE(w, c.value)
      [] c.m = "writeI8" -> SZ_writeI8(w, c.value)
      [] c.m = "writeI16" -> SZ_writeI16(w, c.value)
      [] c.m = "writeI16BE" -> SZ_writeI16BE(w, c.value)
      [] c.m = "writeI32" -> SZ_writeI32(w, c.value)
      [] c.m = "writeI32BE" -> SZ_writeI32BE(w, c.value)
      [] c.m = "writeI64" -> SZ_writeI64(w, c.value)
      [] c.m = "writeI64BE" -> SZ_writeI64BE(w, c.value)
      [] c.m = "writeVarint" -> SZ_writeVarint(w, c.value)
      [] c.m = "writeVarint2" -> SZ_writeVarint2(w, c.value)
      [] c.m = "writeBytes" -> SZ_writeBytes(w, c.value)
      [] c.m = "writeVarBytes" -> SZ_writeVarBytes(w, c.value)
      [] c.m = "copy" -> SZ_copy(w, c.value, c.start, c.end)
      [] c.m = "writeString" -> SZ_writeString(w, c.value, c.enc)
      [] c.m = "writeHash" -> SZ_writeHash(w, c.value)
      [] c.m = "writeVarString" -> SZ_writeVarString(w, c.value, c.enc)
      [] c.m = "writeNullString" -> SZ_writeNullString(w, c.value, c.enc)
      [] c.m = "writeChecksum" -> SZ_writeChecksum(w, c.hash)
      [] c.m = "fill" -> SZ_fill(w, c.value, c.size)

SW_call(w, c, na, g) ==
    CASE c.m = "seek" -> SW_seek(w, c.offset)
      [] c.m = "writeU8" -> SW_writeU8(w, c.value, na)
      [] c.m = "writeU16" -> SW_writeU16(w, c.value, na)
      [] c.m = "writeU16BE" -> SW_writeU16BE(w, c.value, na)
      [] c.m = "writeU32" -> SW_writeU32(w, c.value, na)
      [] c.m = "writeU32BE" -> SW_writeU32BE(w, c.value, na)
      [] c.m = "writeU64" -> SW_writeU64(w, c.value, na)
      [] c.m = "writeU64BE" -> SW_writeU64BE(w, c.value, na)
      [] c.m = "writeI8" -> SW_writeI8(w, c.value, na)
      [] c.m = "writeI16" -> SW_writeI16(w, c.value, na)
      [] c.m = "writeI16BE" -> SW_writeI16BE(w, c.value, na)
      [] c.m = "writeI32" -> SW_writeI32(w, c.value, na)
      [] c.m = "writeI32BE" -> SW_writeI32BE(w, c.value, na)
      [] c.m = "writeI64" -> SW_writeI64(w, c.value, na)
      [] c.m = "writeI64BE" -> SW_writeI64BE(w, c.value, na)
      [] c.m = "writeVarint" -> SW_writeVarint(w, c.value, na)
      [] c.m = "writeVarint2" -> SW_writeVarint2(w, c.value)
      [] c.m = "writeBytes" -> SW_writeBytes(w, c.value)
      [] c.m = "writeVarBytes" -> SW_writeVarBytes(w, c.value, na)
      [] c.m = "copy" -> SW_copy(w, c.value, c.start, c.end)
      [] c.m = "writeString" -> SW_writeString(w, c.value, c.enc)
      [] c.m = "writeHash" -> SW_writeHash(w, c.value)
      [] c.m = "writeVarString" -> SW_writeVarString(w, c.value, c.enc, na)
      [] c.m = "writeNullString" -> SW_writeNullString(w, c.value, c.enc, na)
      [] c.m = "writeChecksum" -> SW_writeChecksum(w, c.hash, g)
      [] c.m = "fill" -> SW_fill(w, c.value, c.size)

-----------------------------------------------------------------------------
(* The encode scenario: a caller sizes a sequence of calls with a           *)
(* SizeWriter, queues it on a BufferWriter, renders the BufferWriter, then  *)
(* writes the same sequence into a StaticWriter of the computed size        *)
(* (Struct.encode) and renders it.                                          *)

NotYet == [type |-> "none", reason |-> "", offset |-> 0]

NoRender == [err |-> NotYet, data |-> EMPTY, off |-> 0, len |-> 0, ran |-> FALSE]

\* the last call made: its name, the writer of the pool scenario it was made
\* on, its outcome, that writer before the call, the array it returned
NoLast == [op |-> "none", i |-> 0, err |-> OK, pre |-> StaticWriter,
           data |-> EMPTY]

Last(op, err) == [NoLast EXCEPT !.op = op, !.err = err]

\* The codec scenario: the number handed to the codec, the size function
\* applied to it and its result, the write function applied, the offset and
\* its result, the read function applied to the bytes and its result.
EncStart(num) ==
    [pc |-> "input", num |-> num, sized |-> "none", size |-> [value |-> 0, err |-> OK],
     fn |-> "none", off |-> 0, res |-> Res(EMPTY, 0, OK),
     rfn |-> "none", rd |-> [size |-> 0, value |-> [neg |-> FALSE, mag |-> <<>>], err |-> NotYet],
     flag |-> FALSE, sflag |-> FALSE]

EncIdle == [EncStart([neg |-> FALSE, mag |-> <<0, 0, 0, 0, 0, 0, 0, 0>>])
               EXCEPT !.pc = "idle"]

NoPool == [alloc |-> FALSE, cells |-> NoCells]

PoolIdle == /\ POOL = NoPool
            /\ sw = <<>>
            /\ handed = <<>>

Init ==
    /\ noAssert \in BOOLEAN
    /\ pc = "write"
    /\ calls = <<>>
    /\ bw = BufferWriter
    /\ sz = SizeWriter
    /\ st = StaticWriter
    /\ k = 0
    /\ bwOut = NoRender
    /\ szOut = [err |-> NotYet, size |-> 0]
    /\ stOut = [err |-> NotYet, data |-> EMPTY]
    /\ last = NoLast
    /\ PoolIdle
    /\ codec = EncIdle

\* the caller makes its next call on the BufferWriter and the SizeWriter
Call ==
    /\ pc = "write"
    /\ Len(calls) < MaxCalls
    /\ \E i \in 1..Len(CallList) :
          LET c == CallList[i]
              rb == BW_call(bw, c)
              rs == SZ_call(sz, c)
          IN /\ calls' = Append(calls, c)
             /\ bw' = rb.w
             /\ sz' = rs.w
             /\ last' = Last(c.m, IF rb.err # OK THEN rb.err ELSE rs.err)
             /\ pc' = IF rb.err # OK \/ rs.err # OK THEN "threw" ELSE "write"
    /\ UNCHANGED <<codec, noAssert, st, k, bwOut, szOut, stOut, POOL, sw, handed>>

\* bw.render()
RenderBuffer ==
    /\ pc = "write"
    /\ \E g \in UninitBytes :
          \E r \in {BW_render(bw, noAssert, g)} :
             /\ bw' = r.w
             /\ bwOut' = [err |-> r.err, data |-> r.data, off |-> r.off,
                          len |-> r.len, ran |-> r.ran]
             /\ last' = Last("render", r.err)
    /\ pc' = "size"
    /\ UNCHANGED <<codec, noAssert, calls, sz, st, k, szOut, stOut, POOL, sw, handed>>

\* new StaticWriter(size) with size = the SizeWriter's getSize()
Presize ==
    /\ pc = "size"
    /\ LET r == SW_init(SZ_getSize(sz))
       IN /\ st' = r.w
          /\ last' = Last("init", r.err)
          /\ pc' = IF r.err # OK THEN "threw" ELSE "static"
    /\ k' = 0
    /\ UNCHANGED <<codec, noAssert, calls, bw, sz, bwOut, szOut, stOut, POOL, sw, handed>>

\* the caller makes the next call of the same sequence on the StaticWriter
StaticCall ==
    /\ pc = "static"
    /\ k < Len(calls)
    /\ \E g \in UninitBytes :
          \E r \in {SW_call(st, calls[k + 1], noAssert, g)} :
             /\ st' = r.w
             /\ last' = Last(calls[k + 1].m, r.err)
             /\ pc' = IF r.err # OK THEN "threw" ELSE "static"
    /\ k' = k + 1
    /\ UNCHANGED <<codec, noAssert, calls, bw, sz, bwOut, szOut, stOut, POOL, sw, handed>>

\* st.render()
RenderStatic ==
    /\ pc = "static"
    /\ k = Len(calls)
    /\ LET r == SW_render(st)
       IN /\ st' = r.w
          /\ stOut' = [err |-> r.err, data |-> r.data]
          /\ last' = Last("render", r.err)
    /\ pc' = "sized"
    /\ UNCHANGED <<codec, noAssert, calls, bw, sz, k, bwOut, szOut, POOL, sw, handed>>

\* st.slice() in place of st.render()
SliceStatic ==
    /\ pc = "static"
    /\ k = Len(calls)
    /\ LET r == SW_slice(st)
       IN /\ st' = r.w
          /\ stOut' = [err |-> r.err, data |-> r.data]
          /\ last' = Last("slice", r.err)
    /\ pc' = "sized"
    /\ UNCHANGED <<codec, noAssert, calls, bw, sz, k, bwOut, szOut, POOL, sw, handed>>

\* sz.render()
RenderSize ==
    /\ pc = "sized"
    /\ LET r == SZ_render(sz)
       IN /\ sz' = r.w
          /\ szOut' = [err |-> r.err, size |-> r.size]
          /\ last' = Last("render", r.err)
    /\ pc' = "done"
    /\ UNCHANGED <<codec, noAssert, calls, bw, st, k, bwOut, stOut, POOL, sw, handed>>

\* this.write(bw, extra) with a StaticWriter: the calls of the body in
\* order, up to the first that throws
RECURSIVE StructWrite(_, _, _, _)
StructWrite(w, cs, na, g) ==
    IF cs = <<>> THEN Ret(w, OK)
    ELSE LET Rest(r) ==
                IF r.err # OK THEN r ELSE StructWrite(r.w, Tail(cs), na, g)
         IN Rest(SW_call(w, Head(cs), na, g))

\* Struct.encode() of a structure whose getSize() returns size and whose
\* write() makes the calls cs (b: the BufferWriter after those calls): the
\* outcome and the array returned
encode(size, b, cs, na, g) ==
    LET Out(r) == [err |-> r.err, data |-> r.data]
        AfterWrite(r) == IF r.err # OK THEN [err |-> r.err, data |-> EMPTY]
                         ELSE Out(SW_render(r.w))
        AfterInit(r) == IF r.err # OK THEN [err |-> r.err, data |-> EMPTY]
                        ELSE AfterWrite(StructWrite(r.w, cs, na, g))
    IN IF size = -1 THEN Out(BW_render(b, na, g))
       ELSE AfterInit(SW_init(size))

\* what getSize() of the structure returns
EncodeSizes == {-1, 0, 1, 2, 4}

\* encode() of a structure whose write() makes the calls made so far
Encode ==
    /\ pc = "write"
    /\ \E size \in EncodeSizes, g \in UninitBytes :
          \E r \in {encode(size, bw, calls, noAssert, g)} :
             last' = [op |-> "encode", i |-> size, err |-> r.err,
                      pre |-> StaticWriter, data |-> r.data]
    /\ pc' = "encoded"
    /\ UNCHANGED <<codec, noAssert, calls, bw, sz, st, k, bwOut, szOut, stOut,
                   POOL, sw, handed>>

Next ==
    \/ Call \/ RenderBuffer \/ Presize \/ StaticCall \/ RenderStatic
    \/ SliceStatic \/ RenderSize \/ Encode

Spec == Init /\ [][Next]_vars

-----------------------------------------------------------------------------
(* The pool scenario: callers obtain StaticWriters from StaticWriter.pool,  *)
(* write through them, and render or slice them.  A writer of the scenario  *)
(* is [kind, data, offset, live, n]: kind "pool" when data is a slice of    *)
(* the slab POOL (its bytes are then the slab's), "own" when data is memory *)
(* of its own; live until render(), slice() or destroy(); n counts calls.   *)

\* const POOLSIZE = 100 << 10
POOLSIZE == 102400

\* the Buffer a writer of the scenario holds
View(P, w) ==
    IF w.kind = "pool"
    THEN [len |-> w.data.len,
          cells |-> [i \in DOMAIN P.cells \cap (0..(w.data.len - 1)) |->
                        P.cells[i]]]
    ELSE w.data

\* the slab and the writer once the writer's StaticWriter state became x
Store(P, w, x) ==
    IF w.kind = "pool"
    THEN [POOL |-> [P EXCEPT !.cells = x.data.cells @@ @],
          w |-> [w EXCEPT !.offset = x.offset]]
    ELSE [POOL |-> P, w |-> [w EXCEPT !.data = x.data, !.offset = x.offset]]

\* a pool that allocates its slab on every call, whatever the size
SW_poolEager(P, size) ==
    [POOL |-> [alloc |-> TRUE, cells |-> NoCells],
     w |-> IF size <= POOLSIZE
           THEN [kind |-> "pool", data |-> [len |-> size, cells |-> NoCells],
                 offset |-> 0, live |-> TRUE, n |-> 0]
           ELSE [kind |-> "own", data |-> SW_init(size).w.data,
                 offset |-> 0, live |-> TRUE, n |-> 0]]

\* static pool(size)
SW_pool(P, size) ==
    IF size <= POOLSIZE
    THEN [POOL |-> [alloc |-> TRUE, cells |-> P.cells],
          w |-> [kind |-> "pool", data |-> [len |-> size, cells |-> NoCells],
                 offset |-> 0, live |-> TRUE, n |-> 0]]
    ELSE [POOL |-> P,
          w |-> [kind |-> "own", data |-> SW_init(size).w.data,
                 offset |-> 0, live |-> TRUE, n |-> 0]]

PoolSizes == {1, 2, POOLSIZE + 1}

PoolCallList == <<
    [m |-> "writeU8", value |-> 18],
    [m |-> "writeBytes", value |-> <<1, 2, 3>>],
    [m |-> "copy", value |-> <<4, 5, 6>>, start |-> 0, end |-> 2],
    [m |-> "fill", value |-> 7, size |-> 1],
    [m |-> "seek", offset |-> -1] >>

HarnessIdle ==
    /\ pc = "pool"
    /\ calls = <<>>
    /\ bw = BufferWriter
    /\ sz = SizeWriter
    /\ st = StaticWriter
    /\ k = 0
    /\ bwOut = NoRender
    /\ szOut = [err |-> NotYet, size |-> 0]
    /\ stOut = [err |-> NotYet, data |-> EMPTY]

InitPool ==
    /\ noAssert \in BOOLEAN
    /\ HarnessIdle
    /\ POOL = NoPool
    /\ sw = <<>>
    /\ handed = <<>>
    /\ last = NoLast
    /\ codec = EncIdle

harnessVars == <<codec, noAssert, pc, calls, bw, sz, st, k, bwOut, szOut, stOut>>

\* StaticWriter.pool(size)
Pool ==
    /\ Len(sw) < MaxWriters
    /\ \E size \in PoolSizes :
          LET r == SW_pool(POOL, size)
          IN /\ POOL' = r.POOL
             /\ sw' = Append(sw, r.w)
             /\ last' = [NoLast EXCEPT !.op = "pool", !.i = Len(sw) + 1]
    /\ UNCHANGED <<harnessVars, handed>>

\* a call on a live writer of the scenario
WriterCall ==
    \E i \in 1..Len(sw) :
       /\ sw[i].live
       /\ sw[i].n < MaxOps
       /\ \E j \in 1..Len(PoolCallList), g \in UninitBytes :
             LET w == sw[i]
                 x == [data |-> View(POOL, w), offset |-> w.offset]
                 r == SW_call(x, PoolCallList[j], noAssert, g)
                 s == Store(POOL, w, r.w)
             IN /\ POOL' = s.POOL
                /\ sw' = [sw EXCEPT ![i] = [s.w EXCEPT !.n = @ + 1]]
                /\ last' = [Last(PoolCallList[j].m, r.err) EXCEPT !.i = i]
       /\ UNCHANGED <<harnessVars, handed>>

\* what render() or slice() of writer i leaves: the array it returned is
\* recorded with the memory it lives in and its bytes at that time
Finish(i, op, x, r) ==
    /\ sw' = [sw EXCEPT ![i] = IF r.err = OK
                                THEN [@ EXCEPT !.kind = "own", !.data = r.w.data,
                                               !.offset = r.w.offset,
                                               !.live = FALSE]
                                ELSE @]
    /\ handed' = IF r.err = OK
                 THEN Append(handed, [src |-> sw[i].kind, data |-> r.data])
                 ELSE handed
    /\ last' = [op |-> op, i |-> i, err |-> r.err, pre |-> x, data |-> r.data]
    /\ UNCHANGED <<harnessVars, POOL>>

\* render() of a live writer of the scenario
WriterRender ==
    \E i \in 1..Len(sw) :
       /\ sw[i].live
       /\ LET x == [data |-> View(POOL, sw[i]), offset |-> sw[i].offset]
          IN Finish(i, "render", x, SW_render(x))

\* slice() of a live writer of the scenario
WriterSlice ==
    \E i \in 1..Len(sw) :
       /\ sw[i].live
       /\ LET x == [data |-> View(POOL, sw[i]), offset |-> sw[i].offset]
          IN Finish(i, "slice", x, SW_slice(x))

NextPool == Pool \/ WriterCall \/ WriterRender \/ WriterSlice

SpecPool == InitPool /\ [][NextPool]_vars

-----------------------------------------------------------------------------
(* The codec scenario: a caller hands a number to a size function and to a  *)
(* write function of encoding.ts, or takes bytes from the wire, and then    *)
(* decodes the bytes with a read function.                                  *)

\* Buffer.alloc(n): n zero bytes
alloc(n) == [len |-> n, cells |-> [i \in 0..(n - 1) |-> 0]]

EncCap == 11

EncOffs == {0, 2}

\* the offsets of a scheme-B write: those, and the last byte of the buffer
EncOffsB == EncOffs \cup {EncCap - 1}

Pos(m) == [neg |-> FALSE, mag |-> m]

Neg(m) == [neg |-> TRUE, mag |-> m]

\* numbers of the default numeric type (each one is exactly a double)
EncNumbers ==
    { Num(0), Num(1), Num(127), Num(128), Num(252), Num(253), Num(255),
      Num(300), Num(16511), Num(16512), Num(65535), Num(65536),
      Num(2147483647),
      Pos(<<0, 0, 0, 128, 0, 0, 0, 0>>),
      MaxU32,
      Pos(<<0, 0, 0, 0, 1, 0, 0, 0>>),
      Pos(<<0, 0, 0, 128, 1, 0, 0, 0>>),
      Pos(<<254, 192, 255, 255, 255, 255, 31, 0>>),
      Pos(<<255, 192, 255, 255, 255, 255, 31, 0>>),
      Pos(<<128, 255, 255, 255, 255, 255, 31, 0>>),
      MAX_SAFE_INTEGER,
      Pos(<<0, 0, 0, 0, 0, 0, 32, 0>>),
      Pos(<<0, 0, 0, 0, 0, 0, 0, 128>>),
      Num(-1), Num(-2147483647),
      Neg(<<0, 0, 0, 128, 0, 0, 0, 0>>),
      Neg(<<0, 0, 0, 0, 1, 0, 0, 0>>),
      Neg(<<0, 0, 0, 128, 1, 0, 0, 0>>),
      Neg(MAX_SAFE_INTEGER.mag),
      Neg(<<0, 0, 0, 0, 0, 0, 32, 0>>) }

\* the numbers on which the arithmetic of writeVarint2 and sizeVarint2,
\* done in doubles, is exact: those up to 2^53
Varint2Exact(num) == NumLeq(num, Pos(<<0, 0, 0, 0, 0, 0, 32, 0>>))

\* numbers only an extended-precision integer holds
EncWides ==
    { Pos(<<1, 0, 0, 0, 0, 0, 32, 0>>),
      Pos(<<255, 255, 255, 255, 255, 255, 255, 1>>),
      Pos(UINT64_MAX.b) }

\* bytes from the wire
EncWire ==
    { <<>>, <<253>>, <<253, 16, 0>>, <<253, 252, 0>>, <<253, 253, 0>>,
      <<253, 255, 0>>, <<254, 255, 255, 0, 0>>, <<254, 0, 0, 1, 0>>,
      <<255, 255, 255, 255, 255, 0, 0, 0, 0>>,
      <<255, 0, 0, 0, 0, 1, 0, 0, 0>>,
      <<255, 255, 255, 255, 255, 255, 255, 31, 0>>,
      <<255, 0, 0, 0, 0, 0, 0, 32, 0>>,
      <<255, 255, 255, 255, 255, 255, 255, 255, 255>>,
      <<255, 255, 255, 255, 255, 255, 255, 31, 0, 0>>,
      <<0, 0, 0, 0, 0, 0, 32, 0>>,
      <<0, 0, 0, 0, 0, 0, 224, 255>>,
      <<1, 0, 0, 0, 0, 0, 224, 255>>,
      <<255, 255, 255, 255, 255, 255, 223, 255>>,
      <<0, 0, 0, 0, 0, 0, 0, 128>>,
      <<0, 32, 0, 0, 0, 0, 0, 0>>,
      <<255, 224, 0, 0, 0, 0, 0, 1>>,
      <<128, 0>>, <<128, 128>>,
      <<255, 255, 255, 255, 255, 255, 255, 255, 255, 127>>,
      <<128, 254, 254, 254, 254, 254, 254, 254, 254, 127>> }

\* the bytes scheme-B inputs are made of, and the inputs: every sequence of
\* one to three of them
EncBytesB == {0, 1, 127, 128, 129, 255}

EncWireB ==
    UNION {[1..n -> EncBytesB] : n \in 1..3}

EncWired(bytes) ==
    [EncStart(Num(0)) EXCEPT !.pc = "written", !.fn = "wire",
                             !.res = Res(PutSeq(alloc(Len(bytes)), 0, bytes),
                                         Len(bytes), OK)]

InitEnc ==
    /\ noAssert \in BOOLEAN
    /\ pc = "codec"
    /\ calls = <<>>
    /\ bw = BufferWriter
    /\ sz = SizeWriter
    /\ st = StaticWriter
    /\ k = 0
    /\ bwOut = NoRender
    /\ szOut = [err |-> NotYet, size |-> 0]
    /\ stOut = [err |-> NotYet, data |-> EMPTY]
    /\ last = NoLast
    /\ PoolIdle
    /\ codec \in {EncStart(num) : num \in EncNumbers \cup EncWides}
                \cup {EncWired(bytes) : bytes \in EncWire \cup EncWireB}

codecVars == <<noAssert, pc, calls, bw, sz, st, k, bwOut, szOut, stOut,
               POOL, sw, handed, last>>

\* the caller applies a size function to the number
Sized(name, size) ==
    /\ codec.pc = "input"
    /\ codec.sized = "none"
    /\ codec' = [codec EXCEPT !.sized = name, !.size = size]
    /\ UNCHANGED codecVars

EncSizeVarint ==
    /\ codec.num \in EncNumbers
    /\ Sized("sizeVarint", Got(sizeVarint(codec.num), OK))

EncSizeVarint2 ==
    /\ codec.num \in EncNumbers
    /\ Varint2Exact(codec.num)
    /\ Sized("sizeVarint2", Got(sizeVarint2(codec.num), OK))

EncSizeVarintN ==
    /\ ~codec.num.neg
    /\ Sized("sizeVarintN", sizeVarintN(NewU64(codec.num.mag)))

EncSizeVarint2N ==
    /\ ~codec.num.neg
    /\ Sized("sizeVarint2N", sizeVarint2N(NewU64(codec.num.mag)))

\* the caller applies a write function to the number and a zeroed buffer
Written(name, off, res) ==
    /\ codec.pc = "input"
    /\ codec' = [codec EXCEPT !.pc = "written", !.fn = name, !.off = off, !.res = res]
    /\ UNCHANGED codecVars

EncWriteVarint ==
    /\ codec.num \in EncNumbers
    /\ \E off \in EncOffs :
          Written("writeVarint", off, writeVarint(alloc(EncCap), codec.num, off, noAssert))

EncWriteVarint2 ==
    /\ codec.num \in EncNumbers
    /\ Varint2Exact(codec.num)
    /\ \E off \in EncOffsB :
          Written("writeVarint2", off, writeVarint2(alloc(EncCap), codec.num, off))

EncWriteVarintN ==
    /\ ~codec.num.neg
    /\ \E off \in EncOffs :
          Written("writeVarintN", off,
                  writeVarintN(alloc(EncCap), NewU64(codec.num.mag), off, noAssert))

EncWriteVarint2N ==
    /\ ~codec.num.neg
    /\ \E off \in EncOffsB :
          Written("writeVarint2N", off,
                  writeVarint2N(alloc(EncCap), NewU64(codec.num.mag), off))

EncWriteU64N ==
    /\ ~codec.num.neg
    /\ \E off \in EncOffs :
          Written("writeU64N", off, writeU64N(alloc(EncCap), NewU64(codec.num.mag), off))

\* the wide integer handed to an N function: the bytes of the number of the
\* scenario, flagged signed (an I64) or not (a U64)
Wide(flag) == [sign |-> flag, b |-> codec.num.mag]

\* the caller applies an N write function to a wide integer of either flag
WrittenWide(name, off, flag, res) ==
    /\ codec.pc = "input"
    /\ ~codec.num.neg
    /\ codec' = [codec EXCEPT !.pc = "written", !.fn = name, !.off = off,
                              !.res = res, !.flag = flag]
    /\ UNCHANGED codecVars

EncWriteU64BEN ==
    \E off \in EncOffs, flag \in BOOLEAN :
        WrittenWide("writeU64BEN", off, flag,
                    writeU64BEN(alloc(EncCap), Wide(flag), off))

EncWriteI64N ==
    \E off \in EncOffs, flag \in BOOLEAN :
        WrittenWide("writeI64N", off, flag,
                    writeI64N(alloc(EncCap), Wide(flag), off))

EncWriteI64BEN ==
    \E off \in EncOffs, flag \in BOOLEAN :
        WrittenWide("writeI64BEN", off, flag,
                    writeI64BEN(alloc(EncCap), Wide(flag), off))

\* a value flagged signed handed to the unsigned N write functions
EncWriteFlagged ==
    \E off \in EncOffs :
        \/ WrittenWide("writeU64N", off, TRUE,
                       writeU64N(alloc(EncCap), Wide(TRUE), off))
        \/ WrittenWide("writeVarintN", off, TRUE,
                       writeVarintN(alloc(EncCap), Wide(TRUE), off, noAssert))
        \/ WrittenWide("writeVarint2N", off, TRUE,
                       writeVarint2N(alloc(EncCap), Wide(TRUE), off))

\* a value flagged signed handed to the N size functions
EncSizeFlagged ==
    /\ ~codec.num.neg
    /\ codec.sized = "none"
    /\ codec.pc = "input"
    /\ \/ codec' = [codec EXCEPT !.sized = "sizeVarintN", !.sflag = TRUE,
                                  !.size = sizeVarintN(Wide(TRUE))]
       \/ codec' = [codec EXCEPT !.sized = "sizeVarint2N", !.sflag = TRUE,
                                  !.size = sizeVarint2N(Wide(TRUE))]
    /\ UNCHANGED codecVars

EncWriteU64 ==
    /\ codec.num \in EncNumbers
    /\ \E off \in EncOffs :
          Written("writeU64", off, writeU64(alloc(EncCap), codec.num, off, noAssert))

EncWriteU64BE ==
    /\ codec.num \in EncNumbers
    /\ \E off \in EncOffs :
          Written("writeU64BE", off, writeU64BE(alloc(EncCap), codec.num, off, noAssert))

EncWriteI64 ==
    /\ codec.num \in EncNumbers
    /\ \E off \in EncOffs :
          Written("writeI64", off, writeI64(alloc(EncCap), codec.num, off, noAssert))

EncWriteI64BE ==
    /\ codec.num \in EncNumbers
    /\ \E off \in EncOffs :
          Written("writeI64BE", off, writeI64BE(alloc(EncCap), codec.num, off, noAssert))

\* the caller applies a read function to the bytes at the offset written
Decoded(name, rd) ==
    /\ codec.pc = "written"
    /\ codec.res.err = OK
    /\ codec' = [codec EXCEPT !.pc = "read", !.rfn = name, !.rd = rd]
    /\ UNCHANGED codecVars

\* a fixed-width read returns the value alone
Fixed(r) == [size |-> 8, value |-> r.value, err |-> r.err]

EncReadVarint == Decoded("readVarint", readVarint(codec.res.data, codec.off, noAssert))

EncReadVarintN == Decoded("readVarintN", readVarintN(codec.res.data, codec.off, noAssert))

EncReadVarint2 == Decoded("readVarint2", readVarint2(codec.res.data, codec.off))

EncReadVarint2N == Decoded("readVarint2N", readVarint2N(codec.res.data, codec.off))

EncReadU64N ==
    /\ codec.off + 8 <= codec.res.data.len
    /\ Decoded("readU64N", Fixed(Got(readU64N(codec.res.data, codec.off), OK)))

EncReadU64 == Decoded("readU64", Fixed(readU64(codec.res.data, codec.off, noAssert)))

EncReadU64BE == Decoded("readU64BE", Fixed(readU64BE(codec.res.data, codec.off, noAssert)))

EncReadI64 == Decoded("readI64", Fixed(readI64(codec.res.data, codec.off, noAssert)))

EncReadI64BE == Decoded("readI64BE", Fixed(readI64BE(codec.res.data, codec.off, noAssert)))

NextEnc ==
    \/ EncSizeVarint \/ EncSizeVarint2 \/ EncSizeVarintN \/ EncSizeVarint2N
    \/ EncWriteVarint \/ EncWriteVarint2 \/ EncWriteVarintN \/ EncWriteVarint2N
    \/ EncWriteU64 \/ EncWriteU64BE \/ EncWriteI64 \/ EncWriteI64BE
    \/ EncReadVarint \/ EncReadVarintN \/ EncReadVarint2 \/ EncReadVarint2N
    \/ EncReadU64 \/ EncReadU64BE \/ EncReadI64 \/ EncReadI64BE
    \/ EncWriteU64N \/ EncReadU64N
    \/ EncWriteU64BEN \/ EncWriteI64N \/ EncWriteI64BEN
    \/ EncWriteFlagged \/ EncSizeFlagged

SpecEnc == InitEnc /\ [][NextEnc]_vars

-----------------------------------------------------------------------------
(* Properties of the encode scenario *)

\* the calls are write operations: no seek, no copy
OnlyWrites(cs) == \A i \in 1..Len(cs) : cs[i].m \notin {"seek", "copy"}

NoChecksum(cs) == \A i \in 1..Len(cs) : cs[i].m # "writeChecksum"

\* every byte of the array has been written
Initialised(d) == DOMAIN d.cells = 0..(d.len - 1)

\* the array holds exactly the bytes of the sequence s
HoldsBytes(d, s) ==
    /\ d.len = Len(s)
    /\ Initialised(d)
    /\ \A i \in 1..Len(s) : d.cells[i - 1] = s[i]

\* C1: after the same sequence of write operations, the SizeWriter's total
\* equals the length of the array BufferWriter.render() returns and of the
\* array render() of a StaticWriter presized to that total returns.
C1_SizeEqualsRenderedLength ==
    (pc = "done" /\ OnlyWrites(calls)) =>
        /\ bwOut.err = OK
        /\ stOut.err = OK
        /\ bwOut.data.len = szOut.size
        /\ stOut.data.len = szOut.size

\* C2: for a sequence of write operations without a checksum, render() of
\* the BufferWriter and of the presized StaticWriter both succeed and return
\* the same bytes.
C2_DeferredEqualsStatic ==
    (pc = "done" /\ OnlyWrites(calls) /\ NoChecksum(calls)) =>
        /\ bwOut.err = OK
        /\ stOut.err = OK
        /\ Initialised(bwOut.data)
        /\ bwOut.data = stOut.data

\* the number of bytes a queued operation produces when it is replayed
OpSize(op) == ReplayOp(op, allocUnsafe(64), 0, TRUE, 0).off

RECURSIVE OpsSize(_)
OpsSize(ops) == IF ops = <<>> THEN 0 ELSE OpSize(Head(ops)) + OpsSize(Tail(ops))

\* C3: before render, the BufferWriter's running total equals the number of
\* bytes its queued operations produce when replayed.
C3_OffsetIsQueuedSize ==
    pc = "write" => bw.offset = OpsSize(bw.ops)

\* a zero-length payload written with a length prefix
IsEmptyVar(c) == c.m \in {"writeVarBytes", "writeVarString"} /\ c.value = <<>>

\* C4: a zero-length payload written with a length-prefixed operation is the
\* single byte 0 in the array of the BufferWriter and of the StaticWriter, and
\* counts 1 in the SizeWriter.
C4_EmptyPayloadIsOneZeroByte ==
    (pc = "done" /\ Len(calls) = 1 /\ IsEmptyVar(calls[1])) =>
        /\ szOut.size = 1
        /\ bwOut.err = OK /\ HoldsBytes(bwOut.data, <<0>>)
        /\ stOut.err = OK /\ HoldsBytes(stOut.data, <<0>>)

\* the BufferWriter after the calls cs
RECURSIVE Queued(_)
Queued(cs) ==
    IF cs = <<>> THEN BufferWriter
    ELSE BW_call(Queued(SubSeq(cs, 1, Len(cs) - 1)), cs[Len(cs)]).w

\* bw.render() has been called
Rendered == bwOut.err # NotYet

NoSeek(cs) == \A i \in 1..Len(cs) : cs[i].m # "seek"

\* where the bytes of the i-th call start: the number of bytes the
\* operations queued by the calls before it produce
StartOf(cs, i) == OpsSize(Queued(SubSeq(cs, 1, i - 1)).ops)

\* the call as BufferWriter queues it: copy slices value, so that an end
\* beyond the length of value is the length of value
AsQueued(c) ==
    IF c.m = "copy" THEN [c EXCEPT !.end = Min(@, Len(c.value))] ELSE c

\* C6: an array render() returns holds the bytes of the calls in the order
\* the calls were made, each once: the bytes of the i-th call are at the
\* position that is the sum of the sizes of the calls before it, so that
\* writing the i-th call at that position again changes no byte of the array.
C6_ReplayIsFifo ==
    (Rendered /\ bwOut.err = OK /\ NoSeek(calls)) =>
        /\ Initialised(bwOut.data)
        /\ \A i \in 1..Len(calls) :
              LET r == SW_call([data |-> bwOut.data,
                                offset |-> StartOf(calls, i)],
                               AsQueued(calls[i]), noAssert, 0)
              IN /\ r.err = OK
                 /\ r.w.data = bwOut.data
                 /\ r.w.offset = StartOf(calls, i + 1)

\* C6, its case: two calls of different sizes whose bytes differ were
\* rendered
C6_Witness ==
    /\ Rendered /\ bwOut.err = OK
    /\ Len(calls) = 2
    /\ calls[1].m = "writeU8"
    /\ calls[2].m = "writeVarBytes" /\ calls[2].value = <<1, 2>>
    /\ HoldsBytes(bwOut.data, <<18, 2, 1, 2>>)

-----------------------------------------------------------------------------
(* Properties of the pool scenario *)

\* writer i is live and writes into the slab
LivePool(i) == sw[i].live /\ sw[i].kind = "pool"

\* the last step was a write, seek, fill or copy call on writer i
WroteThrough(x, i) == x.i = i /\ x.op \notin {"none", "pool", "render", "slice"}

\* C7: two live writers obtained from StaticWriter.pool with sizes that sum
\* below the pool capacity write into disjoint ranges of the slab: a call on
\* one changes no byte addressable through the other.
C7_PoolWritersDisjoint ==
    [][\A i, j \in 1..Len(sw) :
          (/\ i # j
           /\ LivePool(i) /\ LivePool(j)
           /\ sw[i].data.len + sw[j].data.len < POOLSIZE
           /\ WroteThrough(last', i))
          => View(POOL', sw[j]) = View(POOL, sw[j])]_vars

\* the bytes an array handed to a caller holds now
Current(h) ==
    IF h.src = "pool"
    THEN [len |-> h.data.len,
          cells |-> [i \in DOMAIN POOL.cells \cap (0..(h.data.len - 1)) |->
                        POOL.cells[i]]]
    ELSE h.data

\* C8: an array returned by render() or slice() holds afterwards, whatever
\* is done with any writer, the bytes it held when it was returned.
C8_ReturnedArraysAreStable ==
    \A h \in 1..Len(handed) : Current(handed[h]) = handed[h].data

\* C9: render() returns the buffer if the offset equals the capacity and
\* otherwise throws EncodingError 'Out of bounds write'; slice() throws that
\* error when the offset exceeds the capacity and otherwise returns the first
\* `offset` bytes of the buffer.
C9_RenderAndSliceOutcomes ==
    LET w == last.pre
        oob == EncodingError(w.offset, "Out of bounds write")
    IN /\ last.op = "render" =>
            IF w.offset = w.data.len
            THEN last.err = OK /\ last.data = w.data
            ELSE last.err = oob
       /\ last.op = "slice" =>
            IF w.offset > w.data.len
            THEN last.err = oob
            ELSE /\ last.err = OK
                 /\ last.data.len = w.offset
                 /\ \A b \in 0..(w.offset - 1) :
                       /\ (b \in DOMAIN last.data.cells) = (b \in DOMAIN w.data.cells)
                       /\ b \in DOMAIN w.data.cells
                             => last.data.cells[b] = w.data.cells[b]

\* C10: the offset of a writer is never negative and never exceeds the
\* capacity of the writer's buffer.
C10_OffsetWithinCapacity ==
    \A i \in 1..Len(sw) :
       sw[i].live => sw[i].offset >= 0 /\ sw[i].offset <= sw[i].data.len

-----------------------------------------------------------------------------
(* Properties of the codec scenario *)

\* the bytes a write function stored: from the offset it was handed to the
\* offset it returned
Emitted == ReadSeq(codec.res.data, codec.off, codec.res.off, 0)

\* little-endian bytes as an eight-byte magnitude
PadLE(s) == s \o [i \in 1..(8 - Len(s)) |-> 0]

\* C11: writeVarint emits the shortest form of a value: the value itself in
\* one byte below 0xFD, 0xFD and 2 little-endian bytes up to 0xFFFF, 0xFE and
\* 4 little-endian bytes up to 0xFFFFFFFF, 0xFF and 8 little-endian bytes
\* above; 252 is the byte 0xFC and 253 is 0xFD 0xFD 0x00.
C11_WriteVarintShortestForm ==
    (codec.fn = "writeVarint" /\ ~codec.num.neg) =>
        LET v == codec.num
            e == Emitted
        IN /\ codec.res.err = OK
           /\ IF NumLt(v, Num(253)) THEN e = <<v.mag[1]>>
              ELSE IF NumLeq(v, Num(65535))
              THEN Len(e) = 3 /\ e[1] = 253 /\ PadLE(Tail(e)) = v.mag
              ELSE IF NumLeq(v, MaxU32)
              THEN Len(e) = 5 /\ e[1] = 254 /\ PadLE(Tail(e)) = v.mag
              ELSE Len(e) = 9 /\ e[1] = 255 /\ Tail(e) = v.mag
           /\ v = Num(252) => e = <<252>>
           /\ v = Num(253) => e = <<253, 253, 0>>

C11_Witness ==
    /\ codec.fn = "writeVarint"
    /\ codec.num = Num(253)
    /\ codec.off = 2
    /\ Emitted = <<253, 253, 0>>

\* the bytes the read function is applied to, from the offset it is handed
Wire(n) == ReadSeq(codec.res.data, codec.off, codec.off + n, 0)

\* the bytes at the offset are a whole long form of scheme A: a prefix 0xFD,
\* 0xFE or 0xFF and its 2, 4 or 8 bytes
LongForm ==
    /\ codec.off < codec.res.data.len
    /\ Wire(1)[1] >= 253
    /\ codec.off + 1 + 2 ^ (Wire(1)[1] - 252) <= codec.res.data.len

\* the value of the long form, and whether a shorter form holds it
LongValue == PadLE(Tail(Wire(1 + 2 ^ (Wire(1)[1] - 252))))

FitsShorter ==
    MagLeq(LongValue, IF Wire(1)[1] = 253 THEN Num(252).mag
                      ELSE IF Wire(1)[1] = 254 THEN Num(65535).mag
                      ELSE MaxU32.mag)

\* what the read function returned, as a magnitude
ReadMag == IF codec.rfn \in {"readVarintN", "readVarint2N", "readU64N"}
           THEN codec.rd.value.b ELSE codec.rd.value.mag

NonCanonical == EncodingError(codec.off, "Non-canonical varint")

\* C12 as stated: readVarint and readVarintN fail with the non-canonical
\* error on every long form whose value fits a shorter form and accept
\* every other long form.
C12_Original ==
    (codec.rfn \in {"readVarint", "readVarintN"} /\ LongForm) =>
        IF FitsShorter THEN codec.rd.err = NonCanonical
        ELSE codec.rd.err = OK

\* C12: readVarint and readVarintN fail with the non-canonical error on
\* every long form whose value fits a shorter form; readVarintN accepts
\* every other long form and returns its value; readVarint accepts it and
\* returns its value when the value is at most 2^53-1, and fails with
\* 'Number exceeds 2^53-1' when it is larger.
C12_LongFormsCanonical ==
    (codec.rfn \in {"readVarint", "readVarintN"} /\ LongForm) =>
        IF codec.rfn = "readVarint" /\ ~MagLeq(LongValue, MAX_SAFE_INTEGER.mag)
        THEN codec.rd.err = EncodingError(codec.off + 1, "Number exceeds 2^53-1")
        ELSE IF FitsShorter THEN codec.rd.err = NonCanonical
        ELSE /\ codec.rd.err = OK
             /\ ReadMag = LongValue
             /\ codec.rd.size = 1 + 2 ^ (Wire(1)[1] - 252)

C12_Witness ==
    /\ codec.rfn = "readVarint"
    /\ codec.fn = "wire"
    /\ Wire(9) = <<255, 0, 0, 0, 0, 0, 0, 32, 0>>
    /\ codec.rd.err = EncodingError(1, "Number exceeds 2^53-1")

\* the scheme-A decoders are applied to exactly these bytes and more
DecodesA(bytes) ==
    /\ codec.rfn \in {"readVarint", "readVarintN"}
    /\ codec.off + Len(bytes) <= codec.res.data.len
    /\ Wire(Len(bytes)) = bytes

\* C13 as stated: decoding the bytes 0xFD 0xFF 0x00 (255 in the 3-byte form)
\* with the scheme-A decoder fails.
C13_Original == DecodesA(<<253, 255, 0>>) => codec.rd.err # OK

\* C13: decoding the bytes 0xFD 0xFF 0x00 with the scheme-A decoder returns
\* the value 255 and the size 3, since 255 is not below 0xFD; the bytes
\* 0xFD 0xFC 0x00 (252 in the 3-byte form) fail with the non-canonical error.
C13_Decode255 ==
    /\ DecodesA(<<253, 255, 0>>) =>
          /\ codec.rd.err = OK
          /\ codec.rd.size = 3
          /\ ReadMag = Num(255).mag
    /\ DecodesA(<<253, 252, 0>>) => codec.rd.err = NonCanonical

C13_Witness ==
    /\ codec.fn = "wire"
    /\ DecodesA(<<253, 255, 0>>)
    /\ codec.rfn = "readVarint"
    /\ codec.rd = Varint(3, Num(255))

\* the number is an integer from 0 to 2^53-1
SafeNatural(num) == ~num.neg /\ NumLeq(num, MAX_SAFE_INTEGER)

\* the number was sized, then written, and the bytes were then read, by
\* these three functions
RoundTrip(size, write, read) ==
    /\ codec.pc = "read"
    /\ codec.sized = size
    /\ codec.fn = write
    /\ codec.rfn = read

\* C14: for every integer v from 0 to 2^53-1, readVarint applied to the
\* bytes writeVarint(v) produced returns the value v and the size
\* sizeVarint(v).
C14_VarintRoundTrip ==
    (RoundTrip("sizeVarint", "writeVarint", "readVarint") /\ SafeNatural(codec.num)) =>
        /\ codec.res.err = OK
        /\ codec.size.err = OK
        /\ codec.rd = Varint(codec.size.value, codec.num)

C14_Witness ==
    /\ RoundTrip("sizeVarint", "writeVarint", "readVarint")
    /\ codec.num = MAX_SAFE_INTEGER
    /\ codec.rd = Varint(9, MAX_SAFE_INTEGER)

\* C15: for every integer v from 0 to 2^53-1, readVarint2 applied to the
\* bytes writeVarint2(v) produced returns the value v and the size
\* sizeVarint2(v).
C15_Varint2RoundTrip ==
    (RoundTrip("sizeVarint2", "writeVarint2", "readVarint2") /\ SafeNatural(codec.num)) =>
        /\ codec.res.err = OK
        /\ codec.size.err = OK
        /\ codec.rd = Varint(codec.size.value, codec.num)

\* the encoding of scheme B that starts at the offset ends within the buffer
RECURSIVE Ends(_, _)
Ends(data, off) ==
    off >= 0 /\ off < data.len /\ (Byte(data, off) < 128 \/ Ends(data, off + 1))

\* the value of that encoding in arithmetic wide enough never to overflow
\* (acc is a magnitude of 12 bytes)
RECURSIVE Exact(_, _, _)
Exact(data, off, acc) ==
    LET next == [MagShl7(acc) EXCEPT ![1] = @ + (Byte(data, off) % 128)]
    IN IF Byte(data, off) < 128 THEN next
       ELSE Exact(data, off + 1, MagInc(next))

ExactValue == Exact(codec.res.data, codec.off, [i \in 1..12 |-> 0])

Widen(m) == m \o [i \in 1..(12 - Len(m)) |-> 0]

\* C16: readVarint2 never returns a value above 2^53-1 and readVarint2N
\* never returns a value that wrapped past 2^64-1: a value returned is the
\* value of the encoding, and an encoding whose value exceeds the range of
\* the function fails with the precision error.
C16_Varint2NoOverflow ==
    /\ (codec.rfn = "readVarint2" /\ Ends(codec.res.data, codec.off)) =>
          IF codec.rd.err = OK
          THEN /\ NumLeq(codec.rd.value, MAX_SAFE_INTEGER)
               /\ Widen(codec.rd.value.mag) = ExactValue
          ELSE /\ codec.rd.err.type = "EncodingError"
               /\ codec.rd.err.reason = "Number exceeds 2^53-1"
    /\ (codec.rfn = "readVarint2" /\ Ends(codec.res.data, codec.off)
           /\ ~MagLeq(ExactValue, Widen(MAX_SAFE_INTEGER.mag))) =>
          codec.rd.err # OK
    /\ (codec.rfn = "readVarint2N" /\ Ends(codec.res.data, codec.off)) =>
          IF MagLeq(ExactValue, Widen(UINT64_MAX.b))
          THEN codec.rd.err = OK /\ Widen(codec.rd.value.b) = ExactValue
          ELSE /\ codec.rd.err.type = "EncodingError"
               /\ codec.rd.err.reason = "Number exceeds 2^64-1"

C16_Witness ==
    /\ codec.rfn = "readVarint2N"
    /\ codec.fn = "wire"
    /\ Wire(10) = <<255, 255, 255, 255, 255, 255, 255, 255, 255, 127>>
    /\ ~MagLeq(ExactValue, Widen(UINT64_MAX.b))
    /\ codec.rd.err.reason = "Number exceeds 2^64-1"

\* the same value was sized and then written by these two functions, and
\* the write did not throw
SizedAndWritten(size, write) ==
    /\ codec.pc \in {"written", "read"}
    /\ codec.sized = size
    /\ codec.fn = write
    /\ codec.sflag = codec.flag
    /\ codec.res.err = OK

SizeIsEmitted == codec.size.err = OK /\ codec.size.value = codec.res.off - codec.off

\* C17: for every value the writer accepts, the size function equals the
\* number of bytes the matching write emits: sizeVarint and writeVarint,
\* sizeVarint2 and writeVarint2, sizeVarintN and writeVarintN, sizeVarint2N
\* and writeVarint2N.
C17_SizeMatchesWrite ==
    /\ SizedAndWritten("sizeVarint", "writeVarint") => SizeIsEmitted
    /\ SizedAndWritten("sizeVarint2", "writeVarint2") => SizeIsEmitted
    /\ SizedAndWritten("sizeVarintN", "writeVarintN") => SizeIsEmitted
    /\ SizedAndWritten("sizeVarint2N", "writeVarint2N") => SizeIsEmitted

C17_Witness ==
    /\ SizedAndWritten("sizeVarint2", "writeVarint2")
    /\ codec.num = Num(16511)
    /\ codec.size.value = 2
    /\ Emitted = <<255, 127>>

\* a fixed-width read function was applied to eight bytes of the buffer
Reads64(names) ==
    /\ codec.pc = "read"
    /\ codec.rfn \in names
    /\ codec.off + 8 <= codec.res.data.len

\* those eight bytes, least significant first
Read64Bytes ==
    IF codec.rfn \in {"readU64BE", "readI64BE"} THEN Reverse(Wire(8)) ELSE Wire(8)

\* the signed number eight bytes hold in two's complement
Signed64(b) ==
    IF b[8] < 128 THEN Pos(b)
    ELSE Neg(MagInc([i \in 1..8 |-> 255 - b[i]]))

\* C18: readU64 and readU64BE return the exact value of the eight bytes
\* when it is at most 2^53-1 and fail when it is larger; readI64 and
\* readI64BE return the exact signed value when its magnitude is at most
\* 2^53-1 and fail when the magnitude is larger.
C18_Read64ExactOrFails ==
    /\ Reads64({"readU64", "readU64BE"}) =>
          IF MagLeq(Read64Bytes, MAX_SAFE_INTEGER.mag)
          THEN codec.rd.err = OK /\ codec.rd.value = Pos(Read64Bytes)
          ELSE codec.rd.err.type = "EncodingError"
    /\ Reads64({"readI64", "readI64BE"}) =>
          IF MagLeq(Signed64(Read64Bytes).mag, MAX_SAFE_INTEGER.mag)
          THEN codec.rd.err = OK /\ codec.rd.value = Signed64(Read64Bytes)
          ELSE codec.rd.err.type = "EncodingError"

C18_Witness ==
    /\ Reads64({"readI64"})
    /\ Wire(8) = <<1, 0, 0, 0, 0, 0, 224, 255>>
    /\ codec.rd.err = OK
    /\ codec.rd.value = Neg(MAX_SAFE_INTEGER.mag)

\* one of the four fixed-width write functions was applied to the number
Writes64 ==
    /\ codec.pc \in {"written", "read"}
    /\ codec.fn \in {"writeU64", "writeU64BE", "writeI64", "writeI64BE"}

\* C19: writeU64, writeU64BE, writeI64 and writeI64BE throw when the
\* magnitude of the number exceeds 2^53-1, and write no byte.
C19_Write64ThrowsAboveSafe ==
    (Writes64 /\ ~MagLeq(codec.num.mag, MAX_SAFE_INTEGER.mag)) =>
        /\ codec.res.err # OK
        /\ codec.res.data = alloc(EncCap)

\* the number was written by the write function; when its bytes were read,
\* the read function returned the number
WriteThenRead(write, read) ==
    (codec.pc \in {"written", "read"} /\ codec.fn = write) =>
        /\ codec.res.err = OK
        /\ codec.res.off = codec.off + 8
        /\ (codec.pc = "read" /\ codec.rfn = read) =>
              codec.rd.err = OK /\ codec.rd.value = codec.num

\* C20: for every integer v of magnitude at most 2^53-1,
\* readI64(writeI64(v)) = v and readI64BE(writeI64BE(v)) = v; for every v
\* from 0 to 2^53-1, readU64(writeU64(v)) = v and
\* readU64BE(writeU64BE(v)) = v.
C20_Fixed64RoundTrip ==
    /\ MagLeq(codec.num.mag, MAX_SAFE_INTEGER.mag) =>
          /\ WriteThenRead("writeI64", "readI64")
          /\ WriteThenRead("writeI64BE", "readI64BE")
    /\ SafeNatural(codec.num) =>
          /\ WriteThenRead("writeU64", "readU64")
          /\ WriteThenRead("writeU64BE", "readU64BE")

\* the maximum unsigned 64-bit value, a U64, was written with writeU64N
WroteMaxU64 ==
    /\ codec.pc \in {"written", "read"}
    /\ codec.fn = "writeU64N"
    /\ ~codec.flag
    /\ codec.num = Pos(UINT64_MAX.b)

\* C21: writing 2^64-1 with writeU64N and reading the 8 bytes back with
\* readU64N yields the same high and low words; reading the same 8 bytes
\* with readU64 fails with the precision error.
C21_MaxU64Lossless ==
    WroteMaxU64 =>
        /\ codec.res.err = OK
        /\ codec.res.off = codec.off + 8
        /\ (codec.pc = "read" /\ codec.rfn = "readU64N") =>
              codec.rd.err = OK /\ codec.rd.value = UINT64_MAX
        /\ (codec.pc = "read" /\ codec.rfn = "readU64") =>
              codec.rd.err = EncodingError(codec.off, "Number exceeds 2^53-1")

C21_Witness ==
    /\ WroteMaxU64
    /\ codec.pc = "read"
    /\ codec.rfn = "readU64"
    /\ codec.off = 2
    /\ codec.rd.err = EncodingError(2, "Number exceeds 2^53-1")

-----------------------------------------------------------------------------
(* Further properties of the encode scenario and of the pool scenario *)

\* the array has, at position s, the first 4 bytes of the digest the hash
\* function gives for the s bytes before that position
ChecksumAt(d, s, func) ==
    /\ s + 4 <= d.len
    /\ \A b \in 0..(s + 3) : b \in DOMAIN d.cells
    /\ ReadSeq(d, s, s + 4, 0) = SubSeq(Hash(func, ReadSeq(d, 0, s, 0)), 1, 4)

\* C22: a checksum operation writes exactly 4 bytes, the first 4 bytes of
\* hash(P) where P is the bytes written before the checksum in the same
\* buffer, both in the array BufferWriter.render() returns and in the array
\* of the StaticWriter.
C22_ChecksumIsHashPrefix ==
    (pc = "done" /\ NoSeek(calls)) =>
        \A i \in 1..Len(calls) :
            calls[i].m = "writeChecksum" =>
                /\ bwOut.err = OK
                /\ ChecksumAt(bwOut.data, StartOf(calls, i), calls[i].hash)
                /\ stOut.err = OK
                /\ ChecksumAt(stOut.data, StartOf(calls, i), calls[i].hash)

\* the SizeWriter after the calls cs
RECURSIVE Counted(_)
Counted(cs) ==
    IF cs = <<>> THEN SizeWriter
    ELSE SZ_call(Counted(SubSeq(cs, 1, Len(cs) - 1)), cs[Len(cs)]).w

\* C23: a successful render resets the writer: after BufferWriter.render()
\* the queue is empty and getSize() is 0; after SizeWriter.render(), which
\* returns the accumulated size, getSize() is 0; after StaticWriter.render()
\* or slice() the writer holds an empty buffer at offset 0.
C23_RenderResets ==
    /\ (pc = "size" /\ last.op = "render" /\ last.err = OK) =>
          bw.ops = <<>> /\ BW_getSize(bw) = 0
    /\ (pc = "sized" /\ last.op \in {"render", "slice"} /\ last.err = OK) =>
          st.data = EMPTY /\ st.offset = 0 /\ SW_getSize(st) = 0
    /\ (pc = "done" /\ last.op = "render" /\ last.err = OK) =>
          szOut.size = Counted(calls).offset /\ SZ_getSize(sz) = 0

C23_Witness ==
    /\ pc = "sized"
    /\ last.op = "slice"
    /\ last.err = OK
    /\ Len(calls) = 2
    /\ stOut.data.len = 5
    /\ st = StaticWriter
    /\ bw = BufferWriter

\* an EncodingError has a number as its offset and a text as its reason
WellFormed(err) ==
    err.type = "EncodingError" =>
        /\ err.offset # NoOffset
        /\ err.offset >= 0
        /\ err.reason \notin {"", "undefined"}

\* C24: every EncodingError raised by an encoding primitive carries the
\* numeric byte offset at which the failure was detected and a non-empty
\* reason, the precision failure of readI64 and readI64BE included.
C24_ErrorsCarryOffsetAndReason ==
    /\ WellFormed(codec.size.err)
    /\ WellFormed(codec.res.err)
    /\ WellFormed(codec.rd.err)

\* a step of the pool scenario that is a call of StaticWriter.pool
Pooled == Len(sw') = Len(sw) + 1

\* what a step of the pool scenario does to the slab
SlabStep ==
    /\ (~POOL.alloc /\ POOL'.alloc) =>
          Pooled /\ sw'[Len(sw')].kind = "pool"
    /\ POOL.alloc => POOL'.alloc
    /\ (POOL.alloc /\ Pooled) => POOL' = POOL
    /\ Pooled =>
          LET w == sw'[Len(sw')]
          IN /\ w.kind = "pool" => POOL'.alloc /\ w.data.len <= POOLSIZE
             /\ w.kind = "own" =>
                   /\ POOL' = POOL
                   /\ w.data.len > POOLSIZE
                   /\ w.data.len \in PoolSizes
                   /\ w.offset = 0
    /\ \A i \in 1..Len(sw) :
          (sw[i].kind = "own" /\ sw'[i] # sw[i]) => POOL' = POOL

\* C25: over any sequence of StaticWriter.pool(size) calls the slab is
\* allocated at most once, by the first call with size <= POOLSIZE and not
\* before; a call with size > POOLSIZE returns a writer on a buffer of its
\* own of exactly size bytes and neither creates nor touches the slab.
C25_SlabAllocatedOnce == [][SlabStep]_vars

C25_Witness ==
    /\ POOL.alloc
    /\ Len(sw) = 2
    /\ sw[1].kind = "own" /\ sw[1].live /\ sw[1].data.len = POOLSIZE + 1
    /\ sw[1].n > 0
    /\ sw[2].kind = "pool"

\* a hash value of the accepted length: 32 raw bytes or 64 characters
HashSized(value) == Len(value.v) = (IF value.str THEN 64 ELSE 32)

\* what a writeHash call of the caller does to the writers it is made on
HashStep ==
    /\ (pc = "write" /\ Len(calls') = Len(calls) + 1
           /\ calls'[Len(calls')].m = "writeHash") =>
          LET value == calls'[Len(calls')].value
          IN IF HashSized(value)
             THEN /\ last'.err = OK
                  /\ BW_getSize(bw') = BW_getSize(bw) + 32
                  /\ SZ_getSize(sz') = SZ_getSize(sz) + 32
             ELSE /\ BW_writeHash(bw, value).err = AssertionError
                  /\ bw' = bw
                  /\ SZ_writeHash(sz, value).err = AssertionError
                  /\ sz' = sz
    /\ (pc = "static" /\ k' = k + 1 /\ calls[k'].m = "writeHash") =>
          /\ last'.err = OK
          /\ SW_getSize(st') = SW_getSize(st) + 32

\* C26: writeHash advances the size of every writer (BufferWriter,
\* StaticWriter, SizeWriter) by exactly 32 bytes for a 32-byte raw value
\* and for a 64-character hex text; a raw value or a text of another length
\* is rejected by every writer.
C26_WriteHashCounts32 == [][HashStep]_vars

\* the replay of the i-th queued operation, a seek, moves the position by
\* the operation's value and leaves the array as the replay before it left it
SeekReplayed(ops, i, na, g) ==
    LET After(b) ==
            b.err = OK =>
                \E a \in {ReplayOp(ops[i], b.data, b.off, na, g)} :
                    /\ a.err = OK
                    /\ a.data = b.data
                    /\ a.off = b.off + ops[i].value
    IN After(Replay(SubSeq(ops, 1, i - 1), allocUnsafe(bw.offset), 0, na, g))

\* what a seek of the caller, and the render of a queue that holds seeks, do
SeekStep ==
    /\ (pc = "write" /\ Len(calls') = Len(calls) + 1
           /\ calls'[Len(calls')].m = "seek") =>
          LET n == calls'[Len(calls')].offset
          IN /\ last'.err = OK
             /\ bw'.offset = bw.offset + n
             /\ bw'.ops = Append(bw.ops, NumberOp(SEEK, n))
             /\ sz' = [sz EXCEPT !.offset = @ + n]
    /\ (pc = "static" /\ k' = k + 1 /\ calls[k'].m = "seek") =>
          /\ last'.err = OK
          /\ st' = [st EXCEPT !.offset = @ + calls[k'].offset]
    /\ (pc = "write" /\ pc' = "size" /\ bw.offset >= 0) =>
          \A i \in 1..Len(bw.ops), g \in UninitBytes :
              bw.ops[i].type = SEEK => SeekReplayed(bw.ops, i, noAssert, g)

\* C27: seek(n) changes the writer's offset by exactly n and writes no
\* byte: the replay of a seek by BufferWriter.render leaves every byte of the
\* output array as it was, and in SizeWriter and StaticWriter seek changes
\* the offset and nothing else.
C27_SeekMovesOnly == [][SeekStep]_vars

C27_Witness ==
    /\ pc = "done"
    /\ Len(calls) = 2
    /\ calls[1].m = "seek" /\ calls[1].offset = 1
    /\ calls[2].m = "writeU8"
    /\ bwOut.err = OK /\ bwOut.data.len = 2
    /\ stOut.err = OK /\ stOut.data.len = 2
    /\ szOut.size = 2

\* the bytes value[start..end) that exist
Copied(c) == SubSeq(c.value, c.start + 1, Min(c.end, Len(c.value)))

\* what a copy(value, start, end) of the caller with start <= end does to
\* the writers it is made on
CopyStep ==
    /\ (pc = "write" /\ Len(calls') = Len(calls) + 1
           /\ calls'[Len(calls')].m = "copy"
           /\ calls'[Len(calls')].start <= calls'[Len(calls')].end) =>
          LET c == calls'[Len(calls')]
          IN /\ last'.err = OK
             /\ BW_getSize(bw') = BW_getSize(bw) + (c.end - c.start)
             /\ SZ_getSize(sz') = SZ_getSize(sz) + (c.end - c.start)
             /\ Len(bw'.ops) = Len(bw.ops) + 1
             /\ bw'.ops[Len(bw'.ops)] = BufferOp(BYTES, Copied(c))
    /\ (pc = "static" /\ k' = k + 1 /\ calls[k'].m = "copy"
           /\ calls[k'].start <= calls[k'].end
           /\ st.offset >= 0
           /\ st.offset + (calls[k'].end - calls[k'].start) <= st.data.len) =>
          LET c == calls[k']
          IN /\ last'.err = OK
             /\ SW_getSize(st') = SW_getSize(st) + (c.end - c.start)
             /\ \A j \in 1..Len(Copied(c)) :
                   /\ (st.offset + j - 1) \in DOMAIN st'.data.cells
                   /\ st'.data.cells[st.offset + j - 1] = Copied(c)[j]

\* C28: copy(value, start, end) with start <= end accounts for the same
\* number of bytes in all three writers: BufferWriter, StaticWriter and
\* SizeWriter each advance their offset by exactly end - start and the
\* bytes materialized are value[start..end), also when end is larger than
\* the length of value.
C28_CopyCountsEndMinusStart == [][CopyStep]_vars

-----------------------------------------------------------------------------
(* Bounds of the varint readers and writers of the codec scenario *)

\* a varint reader was applied to the bytes of the scenario
ReadsVarint(names) == codec.pc = "read" /\ codec.rfn \in names

SchemeA == {"readVarint", "readVarintN"}

SchemeB == {"readVarint2", "readVarint2N"}

\* the buffer ends before the form its prefix byte announces is complete
TruncatedA ==
    LET d == codec.res.data
        Short(prefix, size) ==
            Byte(d, codec.off) = prefix /\ codec.off + size > d.len
    IN \/ codec.off >= d.len
       \/ Short(253, 3) \/ Short(254, 5) \/ Short(255, 9)

\* the buffer ends on a byte whose continuation bit is set, or is empty
TruncatedB ==
    \A i \in codec.off..(codec.res.data.len - 1) :
        Byte(codec.res.data, i) >= 128

OutOfBoundsRead == codec.rd.err.type = "EncodingError"
                   /\ codec.rd.err.reason = "Out of bounds read"

\* a range failure detected in the bytes that are there
RangeFailure ==
    /\ codec.rd.err.type = "EncodingError"
    /\ codec.rd.err.reason \in {"Number exceeds 2^53-1", "Number exceeds 2^64-1"}
    /\ codec.rd.err.offset <= codec.res.data.len

\* what the claim and its amendment share: a successful read stays inside
\* the buffer, and a truncated scheme-A form is an out-of-bounds read
ReadsInside ==
    /\ (ReadsVarint(SchemeA \cup SchemeB) /\ codec.rd.err = OK) =>
          /\ codec.rd.size >= 1
          /\ codec.off + codec.rd.size <= codec.res.data.len
    /\ (ReadsVarint(SchemeA) /\ TruncatedA) =>
          OutOfBoundsRead /\ codec.rd.err.offset = codec.off
    /\ (ReadsVarint(SchemeA \cup SchemeB) /\ OutOfBoundsRead) =>
          IF codec.rfn \in SchemeA THEN TruncatedA ELSE TruncatedB

\* C29 as stated: readVarint, readVarintN, readVarint2 and readVarint2N
\* never read a byte at an index >= data.length; when the buffer ends before
\* the encoding announced by the prefix byte (scheme A) or by a continuation
\* bit (scheme B) is complete they fail with an 'Out of bounds read' error;
\* on success off + size <= data.length.
C29_Original ==
    /\ ReadsInside
    /\ (ReadsVarint(SchemeB) /\ TruncatedB) => OutOfBoundsRead

\* C29, amended: as stated, except that a scheme-B reader whose buffer ends
\* on a continuation bit fails with 'Out of bounds read' at data.length only
\* if the bytes that are there do not already exceed the range; if they do,
\* it fails with the range error at the byte that exceeds it.
C29_ReadsStayInBounds ==
    /\ ReadsInside
    /\ (ReadsVarint(SchemeB) /\ TruncatedB) =>
          \/ OutOfBoundsRead /\ codec.rd.err.offset = codec.res.data.len
          \/ RangeFailure

\* C29, its case: a scheme-B reader was given two bytes with the
\* continuation bit set and nothing after them
C29_Witness ==
    /\ ReadsVarint({"readVarint2"})
    /\ codec.off = 0
    /\ codec.res.data.len = 2
    /\ TruncatedB
    /\ codec.rd.err = EncodingError(2, "Out of bounds read")

\* a scheme-B writer was applied to the number of the scenario
WritesB == codec.pc \in {"written", "read"}
           /\ codec.fn \in {"writeVarint2", "writeVarint2N"}

\* the length of the scheme-B encoding of the number of the scenario
EncodedB ==
    IF codec.fn = "writeVarint2" THEN Len(Varint2Tmp(codec.num, 0))
    ELSE sizeVarint2N(NewU64(codec.num.mag)).value

\* C30: a scheme-B varint write that does not fit in the destination
\* (off + encoded length > dst.length) fails with an out-of-bounds write
\* error, for writeVarint2 and for writeVarint2N, and modifies no byte of
\* the destination.
C30_Varint2WriteOutOfBounds ==
    (WritesB /\ codec.off + EncodedB > EncCap) =>
        /\ codec.res.err = EncodingError(codec.off, "Out of bounds write")
        /\ codec.res.data = alloc(EncCap)

\* an N write function was applied to a wide integer
WroteWide(names) == codec.pc \in {"written", "read"} /\ codec.fn \in names

UnsignedWriters == {"writeU64N", "writeU64BEN", "writeVarintN", "writeVarint2N"}

SignedWriters == {"writeI64N", "writeI64BEN"}

\* the write failed with this reason at its offset and stored nothing
Refused(reason) ==
    /\ codec.res.err = EncodingError(codec.off, reason)
    /\ codec.res.data = alloc(EncCap)
    /\ codec.res.off = codec.off

\* C31: the extended-precision writes enforce signedness before touching
\* the destination: writeU64N, writeU64BEN, writeVarintN and writeVarint2N
\* (and sizeVarintN, sizeVarint2N) fail on a value flagged signed, writeI64N
\* and writeI64BEN fail on a value not flagged signed, and on failure the
\* destination is unchanged; with the right flag the sign check passes.
C31_SignednessEnforced ==
    /\ (WroteWide(UnsignedWriters) /\ codec.flag) => Refused("Signed")
    /\ (WroteWide(SignedWriters) /\ ~codec.flag) => Refused("Not signed")
    /\ (WroteWide(SignedWriters \cup {"writeU64N", "writeU64BEN"})
           /\ codec.flag = (codec.fn \in SignedWriters)) =>
          /\ codec.res.err = OK
          /\ codec.res.off = codec.off + 8
    /\ (codec.sized \in {"sizeVarintN", "sizeVarint2N"}) =>
          (codec.sflag <=> codec.size.err = EncodingError(0, "Signed"))

\* C31, its case: writeI64N was handed a value that is not flagged signed
\* and whose bytes are not all zero
C31_Witness ==
    /\ WroteWide({"writeI64N"})
    /\ ~codec.flag
    /\ codec.num = Num(300)
    /\ codec.sized = "sizeVarint2N" /\ codec.sflag
    /\ codec.res.err = EncodingError(codec.off, "Not signed")

\* the bytes readVarint2 consumed
Consumed == ReadSeq(codec.res.data, codec.off, codec.off + codec.rd.size, 0)

\* writeVarint2 of the value readVarint2 returned, into a buffer of the size
\* it returned
Rewritten == writeVarint2(alloc(codec.rd.size), codec.rd.value, 0)

\* C32: scheme-B decoding has no non-canonical forms: for every byte
\* sequence that readVarint2 accepts in full, writeVarint2 of the decoded
\* value reproduces exactly that sequence, so that two distinct accepted
\* sequences never decode to the same value.
C32_Varint2Canonical ==
    (ReadsVarint({"readVarint2"}) /\ codec.rd.err = OK) =>
        /\ Rewritten.err = OK
        /\ Rewritten.off = codec.rd.size
        /\ ReadSeq(Rewritten.data, 0, codec.rd.size, 0) = Consumed

\* C32, its case: the two bytes 0x80 0x00, which a scheme without the
\* offset would decode to 0, were accepted in full
C32_Witness ==
    /\ ReadsVarint({"readVarint2"})
    /\ codec.fn = "wire"
    /\ codec.res.data.len = 2
    /\ Consumed = <<128, 0>>
    /\ codec.rd.err = OK
    /\ codec.rd.value = Num(128)

\* two writes stored the same bytes, ended at the same offset and both
\* threw or both returned
SameWrite(a, b) ==
    /\ a.data = b.data
    /\ a.off = b.off
    /\ (a.err = OK) <=> (b.err = OK)

\* the wide reader returned what the reader of the default numeric type
\* returned, whenever that one accepted the input
SameRead(wide, plain) ==
    plain.err = OK =>
        /\ wide.err = OK
        /\ wide.size = plain.size
        /\ ~wide.value.sign
        /\ wide.value.b = plain.value.mag

\* a U64 of the common range was handed to this N write function
WroteCommon(name) ==
    /\ WroteWide({name})
    /\ ~codec.flag
    /\ SafeNatural(codec.num)

\* C33: the extended-precision and the default-numeric varint paths agree
\* on their common range: for every v in 0..2^53-1 writeVarintN(U64(v))
\* emits the bytes of writeVarint(v) and writeVarint2N(U64(v)) the bytes of
\* writeVarint2(v), and readVarintN and readVarint2N return the size and the
\* numeric value of readVarint and readVarint2 on every input these accept.
C33_WideAgreesWithDefault ==
    /\ WroteCommon("writeVarintN") =>
          SameWrite(codec.res,
                    writeVarint(alloc(EncCap), codec.num, codec.off, noAssert))
    /\ WroteCommon("writeVarint2N") =>
          SameWrite(codec.res, writeVarint2(alloc(EncCap), codec.num, codec.off))
    /\ ReadsVarint({"readVarintN"}) =>
          SameRead(codec.rd, readVarint(codec.res.data, codec.off, noAssert))
    /\ ReadsVarint({"readVarint2N"}) =>
          SameRead(codec.rd, readVarint2(codec.res.data, codec.off))

\* C33, its case: the largest value of the common range went through the
\* wide scheme-A writer and reader
C33_Witness ==
    /\ WroteCommon("writeVarintN")
    /\ codec.num = MAX_SAFE_INTEGER
    /\ codec.res.err = OK
    /\ ReadsVarint({"readVarintN"})
    /\ codec.rd.size = 9
    /\ readVarint(codec.res.data, codec.off, noAssert).err = OK

-----------------------------------------------------------------------------
(* Failure of render and Struct.encode *)

\* render() threw because the replay ended at a position that is not the
\* length of the array
PositionMismatch ==
    /\ Rendered
    /\ bwOut.ran
    /\ bwOut.err = EncodingError(bwOut.off, "Out of bounds write")

\* C34: when BufferWriter.render() fails because the replay position
\* differs from the accumulated total, the queue and the running total are
\* left exactly as they were before the call; they are cleared only by a
\* successful render.
C34_FailedRenderKeepsQueue ==
    /\ PositionMismatch => bw = Queued(calls)
    /\ (Rendered /\ bwOut.err = OK) => bw = BufferWriter
    /\ (bw # Queued(calls)) => (Rendered /\ bwOut.err = OK)

\* C34, its case: a write and a seek back were queued, and render() threw
\* on the final position
C34_Witness ==
    /\ PositionMismatch
    /\ Len(calls) = 2
    /\ calls[2].m = "seek"
    /\ Len(bw.ops) = 2
    /\ bw.offset # bwOut.off

\* the number of bytes write() produces: where a StaticWriter with room for
\* all of them ends
Produced(g) ==
    StructWrite(SW_init(MaxCalls * 40).w, calls, noAssert, g)

Encoded == pc = "encoded" /\ last.op = "encode"

\* C35: Struct.encode() uses a BufferWriter when getSize() returns -1 and
\* otherwise a StaticWriter of capacity getSize(); in the second case
\* encode fails with an EncodingError whenever write() produces a number of
\* bytes different from getSize(), and otherwise returns exactly getSize()
\* bytes.
C35_EncodeChecksSize ==
    /\ (Encoded /\ last.i = -1) =>
          \E g \in UninitBytes :
              /\ last.err = BW_render(bw, noAssert, g).err
              /\ last.data.len = BW_render(bw, noAssert, g).data.len
    /\ (Encoded /\ last.i >= 0) =>
          \A g \in UninitBytes :
              Produced(g).err = OK =>
                  IF Produced(g).w.offset # last.i
                  THEN last.err.type = "EncodingError"
                  ELSE last.err = OK /\ last.data.len = last.i

=============================================================================
